---------------------------- MODULE Spec2Model ----------------------------
(***************************************************************************)
(* A model of the AEP metadata-derivation pass ($onValidate in             *)
(* validate.ts): the model sweep, the tag sort and the operation sweep     *)
(* over a typed graph of resource models, interfaces and operations.       *)
(*                                                                         *)
(* JavaScript strings are sequences of one-character strings, so that      *)
(* capitalisation, slugs, placeholder replacement and the code-unit order  *)
(* of Array.prototype.sort are computed rather than assumed.  A JavaScript *)
(* Map or plain object is a sequence of entries in insertion order.        *)
(***************************************************************************)
EXTENDS Naturals, Sequences, FiniteSets, TLC

\* ------------------------------------------------------------------------
\* Bounds of the input graphs
\* ------------------------------------------------------------------------
NumModels == 2
NumServices == 2
NumOps == 3
MaxRuns == 2

ModelIds == 1..NumModels
Services == 1..NumServices
OpIds == 1..NumOps

\* ------------------------------------------------------------------------
\* Strings
\* ------------------------------------------------------------------------
LowerChars == <<"a","b","c","d","e","f","g","h","i","j","k","l","m","n","o","p","q","r","s","t","u","v","w","x","y","z">>
UpperChars == <<"A","B","C","D","E","F","G","H","I","J","K","L","M","N","O","P","Q","R","S","T","U","V","W","X","Y","Z">>

\* The characters the model uses, in UTF-16 code-unit order ("backtick" stands
\* for the one character U+0060).
CodeUnitOrder ==
  <<" ","-",".","/","0","1","2","3","4","5","6","7","8","9",":">> \o UpperChars \o <<"_","backtick">> \o LowerChars \o <<"{","}">>

CodeUnit(c) == CHOOSE i \in 1..Len(CodeUnitOrder) : CodeUnitOrder[i] = c

toUpperCase(c) ==
  IF \E i \in 1..26 : LowerChars[i] = c
  THEN UpperChars[CHOOSE i \in 1..26 : LowerChars[i] = c]
  ELSE c

toLowerCase(c) ==
  IF \E i \in 1..26 : UpperChars[i] = c
  THEN LowerChars[CHOOSE i \in 1..26 : UpperChars[i] = c]
  ELSE c

\* s.charAt(0).toUpperCase() + s.slice(1)
capitalize(s) ==
  IF s = <<>> THEN <<>> ELSE <<toUpperCase(Head(s))>> \o Tail(s)

\* a < b as JavaScript compares strings (code units, then length)
RECURSIVE StrLess(_, _)
StrLess(a, b) ==
  IF b = <<>> THEN FALSE
  ELSE IF a = <<>> THEN TRUE
  ELSE IF Head(a) = Head(b) THEN StrLess(Tail(a), Tail(b))
  ELSE CodeUnit(Head(a)) < CodeUnit(Head(b))

\* An optional string: undefined, or a value.
None == [set |-> FALSE, v |-> <<>>]
Some(s) == [set |-> TRUE, v |-> s]

\* A service namespace without a tag map.
NoTags == [set |-> FALSE, tags |-> <<>>]

\* ------------------------------------------------------------------------
\* Values (the compiler's Value objects)
\* ------------------------------------------------------------------------
Undefined == [kind |-> "undefined", str |-> <<>>, num |-> 0, items |-> <<>>]
makeStringValue(s) == [kind |-> "string", str |-> s, num |-> 0, items |-> <<>>]
\* numerics are kept in hundredths: 100 is 10000 and 99.99 is 9999
makeInt32Value(hundredths) ==
  [kind |-> "numeric", str |-> <<>>, num |-> hundredths, items |-> <<>>]
makeBooleanValue(b) ==
  [kind |-> "boolean", str |-> <<>>, num |-> IF b THEN 1 ELSE 0, items |-> <<>>]
\* props is a Map<string, Value>: a sequence of [name, value] entries
makeObjectValue(props) ==
  [kind |-> "object", str |-> <<>>, num |-> 0, items |-> props]
makeArrayValue(values) ==
  [kind |-> "array", str |-> <<>>, num |-> 0,
   items |-> [i \in 1..Len(values) |-> [name |-> <<>>, value |-> values[i]]]]

\* Map.prototype.has / get / set on a sequence of entries
MapHas(m, k) == \E i \in 1..Len(m) : m[i].name = k
MapGet(m, k) ==
  IF MapHas(m, k) THEN m[CHOOSE i \in 1..Len(m) : m[i].name = k].value
  ELSE Undefined
MapSet(m, k, val) ==
  IF MapHas(m, k)
  THEN [i \in 1..Len(m) |-> IF m[i].name = k THEN [name |-> k, value |-> val] ELSE m[i]]
  ELSE Append(m, [name |-> k, value |-> val])
MapKeys(m) == [i \in 1..Len(m) |-> m[i].name]


\* ------------------------------------------------------------------------
\* State
\* ------------------------------------------------------------------------
VARIABLES
  models,       \* the typed graph: per model its ResourceMetadata, parent,
                \* namespace, properties and collection filter doc
  modelOrder,   \* declaration order of the models
  ops,          \* per operation its namespace, interface, resource-operation
                \* tag, action tags, return type and filter parameter
  extension,    \* x-aep-resource per model (setExtension)
  modelDoc,     \* description per model (getDoc / $doc)
  tagsMetadata, \* per service namespace the root-level tag map
  operationId,  \* per operation ($operationId)
  opTags,       \* per operation the tag list ($tag)
  opSummary,    \* per operation (getSummary / $summary)
  opDoc,        \* per operation ($doc)
  opExamples,   \* per operation the list of {parameters, returnType}
  propExamples, \* per list-response model the examples of results and
                \* next_page_token
  paramDoc,     \* per operation the description of its filter parameter
  diagnostics,  \* program.diagnostics: what reportDiagnostic has collected
  pc            \* position of $onValidate: run, service, phase, index

graph == <<models, modelOrder, ops>>
annotations == <<extension, modelDoc, tagsMetadata, operationId, opTags,
                 opSummary, opDoc, opExamples, propExamples, paramDoc>>
vars == <<models, modelOrder, ops, extension, modelDoc, tagsMetadata,
          operationId, opTags, opSummary, opDoc, opExamples, propExamples,
          paramDoc, diagnostics, pc>>

\* ------------------------------------------------------------------------
\* Queries on the graph
\* ------------------------------------------------------------------------
NoMetadata == [has |-> FALSE, type |-> <<>>, singular |-> <<>>, plural |-> <<>>]
AepResourceMetadata(type, singular, plural) ==
  [has |-> TRUE, type |-> type, singular |-> singular, plural |-> plural]

getAepResourceMetadata(entity) == models[entity].meta
\* 0 stands for "no parent"
getParentResource(model) == models[model].parent
getResourceOperation(op) == ops[op].resOp
getActionDetails(op) == ops[op].action
getCollectionActionDetails(op) == ops[op].collectionAction
getAepCollectionFilterDoc(model) == models[model].filterDoc
isKey(prop) == prop.key
getExamples(prop) == prop.examples

\* ------------------------------------------------------------------------
\* Pattern Builder
\* ------------------------------------------------------------------------
\* the walk going on through a parent that carries no metadata
RECURSIVE chainEndsAtRootOnly(_, _)
chainEndsAtRootOnly(model, calls) ==
  LET parent == getParentResource(model) IN
  IF parent = 0 THEN TRUE
  ELSE IF calls = 0 THEN FALSE
  ELSE chainEndsAtRootOnly(parent, calls - 1)

\* The walk up the parent chain ends within `calls` recursive calls: it ends
\* at a model with no parent or with a parent that carries no metadata.
RECURSIVE chainEnds(_, _)
chainEnds(model, calls) ==
  LET parent == getParentResource(model) IN
  IF parent = 0 \/ ~getAepResourceMetadata(parent).has THEN TRUE
  ELSE IF calls = 0 THEN FALSE
  ELSE chainEnds(parent, calls - 1)

\* buildPattern and collectPathParams have no cycle check: on a parent
\* relation that leads back to the model the recursion goes on until the
\* call stack is exhausted and a RangeError is thrown.
exceedsCallStack(model) == ~chainEnds(model, NumModels)

\* buildPattern without the walk up the parent chain
buildPatternOwnSegment(model, metadata) ==
  metadata.plural \o <<"/","{">> \o metadata.singular \o <<"}">>

\* buildPattern taking the parent's names without checking its metadata
buildPatternUncheckedParent(model, metadata) ==
  LET parent == getParentResource(model) IN
  IF parent # 0
  THEN getAepResourceMetadata(parent).plural \o <<"/","{">>
         \o getAepResourceMetadata(parent).singular \o <<"}","/">>
         \o metadata.plural \o <<"/","{">> \o metadata.singular \o <<"}">>
  ELSE metadata.plural \o <<"/","{">> \o metadata.singular \o <<"}">>

RECURSIVE buildPattern(_, _)
buildPattern(model, metadata) ==
  LET parent == getParentResource(model) IN
  IF parent # 0 /\ getAepResourceMetadata(parent).has
  THEN buildPattern(parent, getAepResourceMetadata(parent))
         \o <<"/">> \o metadata.plural \o <<"/","{">> \o metadata.singular \o <<"}">>
  ELSE metadata.plural \o <<"/","{">> \o metadata.singular \o <<"}">>

\* ------------------------------------------------------------------------
\* Example Synthesizer
\* ------------------------------------------------------------------------
getScalarName(type) == type

\* the table with 100 for the floating-point scalars as well
generateExampleValueWholeNumbers(prop) ==
  LET scalarName == getScalarName(prop.type) IN
  IF scalarName = "" THEN Undefined
  ELSE CASE scalarName = "string" ->
              makeStringValue(<<"E","x","a","m","p","l","e"," ">> \o capitalize(prop.name))
         [] scalarName \in {"int32", "int64", "float32", "float64"} ->
              makeInt32Value(10000)
         [] scalarName = "boolean" -> makeBooleanValue(TRUE)
         [] scalarName = "utcDateTime" ->
              makeStringValue(<<"2","0","2","4","-","0","1","-","1","5","T","1","0",":","3","0",":","0","0","Z">>)
         [] OTHER -> Undefined

generateExampleValue(prop) ==
  LET scalarName == getScalarName(prop.type) IN
  IF scalarName = "" THEN Undefined
  ELSE CASE scalarName = "string" ->
              makeStringValue(<<"E","x","a","m","p","l","e"," ">> \o capitalize(prop.name))
         [] scalarName \in {"int32", "int64"} -> makeInt32Value(10000)
         [] scalarName \in {"float32", "float64"} -> makeInt32Value(9999)
         [] scalarName = "boolean" -> makeBooleanValue(TRUE)
         [] scalarName = "utcDateTime" ->
              makeStringValue(<<"2","0","2","4","-","0","1","-","1","5","T","1","0",":","3","0",":","0","0","Z">>)
         [] OTHER -> Undefined

\* pattern.replace(/\{([^}]+)\}/g, (_match, paramName) => `my-${paramName}`)
RECURSIVE replacePlaceholders(_)
replacePlaceholders(s) ==
  IF s = <<>> THEN <<>>
  ELSE IF Head(s) # "{" THEN <<Head(s)>> \o replacePlaceholders(Tail(s))
  ELSE IF \A j \in 1..Len(s) : s[j] # "}" THEN s
  ELSE LET close == CHOOSE j \in 1..Len(s) :
                      s[j] = "}" /\ \A k \in 1..(j-1) : s[k] # "}"
       IN IF close = 2
          THEN <<"{">> \o replacePlaceholders(Tail(s))
          ELSE <<"m","y","-">> \o SubSeq(s, 2, close - 1)
                 \o replacePlaceholders(SubSeq(s, close + 1, Len(s)))

\* the loop body with the generic rule tried before the key and path rules
resourceExampleEntryGenericFirst(props, prop, model, metadata, includeKey) ==
  IF ~includeKey /\ (isKey(prop) \/ prop.name = <<"p","a","t","h">>) THEN props
  ELSE IF Len(getExamples(prop)) > 0
       THEN MapSet(props, prop.name, getExamples(prop)[1])
  ELSE IF generateExampleValue(prop) # Undefined
       THEN MapSet(props, prop.name, generateExampleValue(prop))
  ELSE IF isKey(prop)
       THEN MapSet(props, prop.name,
                   makeStringValue(<<"m","y","-">> \o metadata.singular))
  ELSE IF prop.name = <<"p","a","t","h">>
       THEN MapSet(props, prop.name,
                   makeStringValue(replacePlaceholders(buildPattern(model, metadata))))
  ELSE props

\* the loop body taking the last declared example instead of the first
resourceExampleEntryLastExample(props, prop, model, metadata, includeKey) ==
  IF ~includeKey /\ (isKey(prop) \/ prop.name = <<"p","a","t","h">>) THEN props
  ELSE IF Len(getExamples(prop)) > 0
       THEN MapSet(props, prop.name, getExamples(prop)[Len(getExamples(prop))])
  ELSE IF isKey(prop)
       THEN MapSet(props, prop.name,
                   makeStringValue(<<"m","y","-">> \o metadata.singular))
  ELSE IF prop.name = <<"p","a","t","h">>
       THEN MapSet(props, prop.name,
                   makeStringValue(replacePlaceholders(buildPattern(model, metadata))))
  ELSE LET value == generateExampleValue(prop) IN
       IF value # Undefined THEN MapSet(props, prop.name, value) ELSE props

\* One iteration of the loop over model.properties in buildResourceExample.
resourceExampleEntry(props, prop, model, metadata, includeKey) ==
  IF ~includeKey /\ (isKey(prop) \/ prop.name = <<"p","a","t","h">>) THEN props
  ELSE IF Len(getExamples(prop)) > 0
       THEN MapSet(props, prop.name, getExamples(prop)[1])
  ELSE IF isKey(prop)
       THEN MapSet(props, prop.name,
                   makeStringValue(<<"m","y","-">> \o metadata.singular))
  ELSE IF prop.name = <<"p","a","t","h">>
       THEN MapSet(props, prop.name,
                   makeStringValue(replacePlaceholders(buildPattern(model, metadata))))
  ELSE LET value == generateExampleValue(prop) IN
       IF value # Undefined THEN MapSet(props, prop.name, value) ELSE props

RECURSIVE resourceExampleProps(_, _, _, _, _)
resourceExampleProps(n, properties, model, metadata, includeKey) ==
  IF n = 0 THEN <<>>
  ELSE resourceExampleEntry(
         resourceExampleProps(n - 1, properties, model, metadata, includeKey),
         properties[n], model, metadata, includeKey)

buildResourceExample(model, metadata, includeKey) ==
  makeObjectValue(
    resourceExampleProps(Len(models[model].properties), models[model].properties,
                         model, metadata, includeKey))

\* params.set(k, v) for every entry of src, in order
RECURSIVE MapSetAll(_, _)
MapSetAll(params, src) ==
  IF src = <<>> THEN params
  ELSE MapSetAll(MapSet(params, Head(src).name, Head(src).value), Tail(src))

\* the path params without the walk up the parent chain
collectPathParamsOwnOnly(model, metadata) ==
  <<[name |-> metadata.singular,
     value |-> makeStringValue(<<"m","y","-">> \o metadata.singular)]>>

RECURSIVE collectPathParams(_, _)
collectPathParams(model, metadata) ==
  LET parent == getParentResource(model)
      inherited ==
        IF parent # 0 /\ getAepResourceMetadata(parent).has
        THEN MapSetAll(<<>>, collectPathParams(parent, getAepResourceMetadata(parent)))
        ELSE <<>>
  IN MapSet(inherited, metadata.singular,
            makeStringValue(<<"m","y","-">> \o metadata.singular))

\* the model's own path params where the parent's are meant
parentPathParamsWithOwnKey(model) ==
  MapSetAll(<<>>, collectPathParams(model, getAepResourceMetadata(model)))

\* the parent's path params, or an empty map (list and create)
parentPathParams(model) ==
  LET parent == getParentResource(model) IN
  IF parent # 0 /\ getAepResourceMetadata(parent).has
  THEN MapSetAll(<<>>, collectPathParams(parent, getAepResourceMetadata(parent)))
  ELSE <<>>

\* An example configuration {parameters, returnType}
ExampleConfig(parameters, returnType) ==
  [parameters |-> parameters, returnType |-> returnType]

buildGetExample(model, metadata) ==
  ExampleConfig(makeObjectValue(collectPathParams(model, metadata)),
                buildResourceExample(model, metadata, TRUE))

\* the list example with two copies of the resource in results
buildListExampleTwice(model, metadata) ==
  LET resourceExample == buildResourceExample(model, metadata, TRUE)
      listResponse ==
        makeObjectValue(<<
          [name |-> <<"r","e","s","u","l","t","s">>,
           value |-> makeArrayValue(<<resourceExample, resourceExample>>)],
          [name |-> <<"n","e","x","t","_","p","a","g","e","_","t","o","k","e","n">>, value |-> makeStringValue(<<>>)]>>)
  IN ExampleConfig(makeObjectValue(parentPathParams(model)), listResponse)

buildListExample(model, metadata) ==
  LET resourceExample == buildResourceExample(model, metadata, TRUE)
      listResponse ==
        makeObjectValue(<<
          [name |-> <<"r","e","s","u","l","t","s">>, value |-> makeArrayValue(<<resourceExample>>)],
          [name |-> <<"n","e","x","t","_","p","a","g","e","_","t","o","k","e","n">>, value |-> makeStringValue(<<>>)]>>)
  IN ExampleConfig(makeObjectValue(parentPathParams(model)), listResponse)

buildCreateExample(model, metadata) ==
  LET bodyExample == buildResourceExample(model, metadata, TRUE)
      params == MapSet(parentPathParams(model), <<"r","e","s","o","u","r","c","e">>, bodyExample)
  IN ExampleConfig(makeObjectValue(params),
                   buildResourceExample(model, metadata, TRUE))

\* the update example with the full resource as the request body
buildUpdateExampleFullBody(model, metadata) ==
  LET pathParams == collectPathParams(model, metadata)
      withContentType ==
        MapSet(pathParams, <<"c","o","n","t","e","n","t","T","y","p","e">>,
               makeStringValue(<<"a","p","p","l","i","c","a","t","i","o","n","/","m","e","r","g","e","-","p","a","t","c","h","+","j","s","o","n">>))
      bodyExample == buildResourceExample(model, metadata, TRUE)
      params == MapSet(withContentType, <<"r","e","s","o","u","r","c","e">>, bodyExample)
  IN ExampleConfig(makeObjectValue(params),
                   buildResourceExample(model, metadata, TRUE))

buildUpdateExample(model, metadata) ==
  LET pathParams == collectPathParams(model, metadata)
      withContentType ==
        MapSet(pathParams, <<"c","o","n","t","e","n","t","T","y","p","e">>,
               makeStringValue(<<"a","p","p","l","i","c","a","t","i","o","n","/","m","e","r","g","e","-","p","a","t","c","h","+","j","s","o","n">>))
      bodyExample == buildResourceExample(model, metadata, FALSE)
      params == MapSet(withContentType, <<"r","e","s","o","u","r","c","e">>, bodyExample)
  IN ExampleConfig(makeObjectValue(params),
                   buildResourceExample(model, metadata, TRUE))

buildDeleteExample(model, metadata) ==
  ExampleConfig(makeObjectValue(collectPathParams(model, metadata)), Undefined)

buildApplyExample(model, metadata) ==
  LET bodyExample == buildResourceExample(model, metadata, TRUE)
      params == MapSet(collectPathParams(model, metadata), <<"r","e","s","o","u","r","c","e">>, bodyExample)
  IN ExampleConfig(makeObjectValue(params),
                   buildResourceExample(model, metadata, TRUE))

\* NoExample stands for the undefined result of buildOperationExample
NoExample == ExampleConfig(Undefined, Undefined)
buildOperationExample(opType, model, metadata) ==
  CASE opType = "read" -> buildGetExample(model, metadata)
    [] opType = "list" -> buildListExample(model, metadata)
    [] opType = "create" -> buildCreateExample(model, metadata)
    [] opType = "update" -> buildUpdateExample(model, metadata)
    [] opType = "delete" -> buildDeleteExample(model, metadata)
    [] opType = "createOrReplace" -> buildApplyExample(model, metadata)
    [] OTHER -> NoExample

\* list.push({parameters, returnType})
setOpExample(list, exampleConfig) ==
  Append(list, [parameters |-> exampleConfig.parameters,
                returnType |-> exampleConfig.returnType])

\* list.push({value}) on a property's example list, created when absent
NoExamples == [set |-> FALSE, list |-> <<>>]
setPropertyExample(examples, value) ==
  [set |-> TRUE, list |-> Append(examples.list, value)]

\* Index of the variant the loop of setListResultsExample stops at: the first
\* Model variant that has a `results` property; 0 when there is none.
resultsVariant(returnType) ==
  LET hits == {i \in 1..Len(returnType.variants) :
                 /\ returnType.variants[i].kind = "Model"
                 /\ returnType.variants[i].results # 0}
  IN IF returnType.kind # "Union" \/ hits = {} THEN 0
     ELSE CHOOSE i \in hits : \A j \in hits : i <= j

\* The new state of the property examples after setListResultsExample.
setListResultsExample(examples, op, model, metadata) ==
  LET i == resultsVariant(ops[op].returnType) IN
  IF i = 0 THEN examples
  ELSE LET variant == ops[op].returnType.variants[i]
           r == variant.results
           existing == examples[r].results
           exampleArray ==
             makeArrayValue(<<buildResourceExample(model, metadata, TRUE)>>)
       IN IF existing.set THEN examples
          ELSE [examples EXCEPT
                  ![r].results = setPropertyExample(existing, exampleArray),
                  ![r].next_page_token =
                     IF variant.next_page_token
                     THEN setPropertyExample(@, makeStringValue(<<>>))
                     ELSE @]

errorStatusCodes == <<
  [code |-> 400, title |-> <<"B","a","d"," ","R","e","q","u","e","s","t">>,
   detail |-> <<"T","h","e"," ","r","e","q","u","e","s","t"," ","w","a","s"," ","i","n","v","a","l","i","d",".">>],
  [code |-> 401, title |-> <<"U","n","a","u","t","h","o","r","i","z","e","d">>,
   detail |-> <<"A","u","t","h","e","n","t","i","c","a","t","i","o","n"," ","i","s"," ","r","e","q","u","i","r","e","d",".">>],
  [code |-> 403, title |-> <<"F","o","r","b","i","d","d","e","n">>,
   detail |-> <<"P","e","r","m","i","s","s","i","o","n"," ","d","e","n","i","e","d",".">>],
  [code |-> 404, title |-> <<"N","o","t"," ","F","o","u","n","d">>,
   detail |-> <<"T","h","e"," ","r","e","s","o","u","r","c","e"," ","w","a","s"," ","n","o","t"," ","f","o","u","n","d",".">>],
  [code |-> 409, title |-> <<"C","o","n","f","l","i","c","t">>,
   detail |-> <<"T","h","e"," ","r","e","s","o","u","r","c","e"," ","a","l","r","e","a","d","y"," ","e","x","i","s","t","s",".">>],
  [code |-> 500, title |-> <<"I","n","t","e","r","n","a","l"," ","S","e","r","v","e","r"," ","E","r","r","o","r">>,
   detail |-> <<"A","n"," ","i","n","t","e","r","n","a","l"," ","e","r","r","o","r"," ","o","c","c","u","r","r","e","d",".">>] >>

\* the slug without toLowerCase()
slugKeepCase(title) ==
  [i \in 1..Len(title) |-> IF title[i] = " " THEN "-" ELSE title[i]]

\* err.title.toLowerCase().replace(/ /g, "-")
slug(title) ==
  [i \in 1..Len(title) |->
     IF title[i] = " " THEN "-" ELSE toLowerCase(title[i])]

errorExample(err) ==
  [parameters |-> Undefined,
   returnType |-> makeObjectValue(<<
     [name |-> <<"_">>, value |-> makeInt32Value(err.code * 100)],
     [name |-> <<"t","y","p","e">>,
      value |-> makeStringValue(<<"h","t","t","p","s",":","/","/","e","x","a","m","p","l","e",".","c","o","m","/","e","r","r","o","r","s","/">> \o slug(err.title))],
     [name |-> <<"t","i","t","l","e">>, value |-> makeStringValue(err.title)],
     [name |-> <<"s","t","a","t","u","s">>, value |-> makeInt32Value(err.code * 100)],
     [name |-> <<"d","e","t","a","i","l">>, value |-> makeStringValue(err.detail)]>>)]

\* The operation's example list after setErrorExamples.
setErrorExamples(list) ==
  list \o [i \in 1..Len(errorStatusCodes) |-> errorExample(errorStatusCodes[i])]

\* ------------------------------------------------------------------------
\* Identifier/Text Synthesizer
\* ------------------------------------------------------------------------
operationPrefixMap ==
  [read |-> <<"G","e","t">>, list |-> <<"L","i","s","t">>, create |-> <<"C","r","e","a","t","e">>,
   update |-> <<"U","p","d","a","t","e">>, delete |-> <<"D","e","l","e","t","e">>,
   createOrReplace |-> <<"A","p","p","l","y">>]

\* operationPrefixMap[opType], the empty string standing for undefined
operationPrefix(opType) ==
  IF opType \in DOMAIN operationPrefixMap THEN operationPrefixMap[opType]
  ELSE <<>>

getOperationSummary(opType, metadata) ==
  LET singular == capitalize(metadata.singular)
      plural == capitalize(metadata.plural)
  IN CASE opType = "read" -> <<"G","e","t"," ">> \o singular
       [] opType = "list" -> <<"L","i","s","t"," ">> \o plural
       [] opType = "create" -> <<"C","r","e","a","t","e"," ">> \o singular
       [] opType = "update" -> <<"U","p","d","a","t","e"," ">> \o singular
       [] opType = "delete" -> <<"D","e","l","e","t","e"," ">> \o singular
       [] opType = "createOrReplace" -> <<"A","p","p","l","y"," ">> \o singular
       [] OTHER -> <<>>

getOperationDescription(opType, metadata) ==
  LET singular == metadata.singular
      plural == metadata.plural
  IN CASE opType = "read" ->
            <<"G","e","t","s"," ","a"," ","s","i","n","g","l","e"," ">> \o singular \o <<" ","b","y"," ","i","t","s"," ","r","e","s","o","u","r","c","e"," ","n","a","m","e",".">>
       [] opType = "list" ->
            <<"L","i","s","t","s"," ">> \o plural
              \o <<" ","w","i","t","h"," ","s","u","p","p","o","r","t"," ","f","o","r"," ","f","i","l","t","e","r","i","n","g",","," ","p","a","g","i","n","a","t","i","o","n",","," ","a","n","d"," ","s","o","r","t","i","n","g",".">>
       [] opType = "create" ->
            <<"C","r","e","a","t","e","s"," ","a"," ","n","e","w"," ">> \o singular
              \o <<"."," ","A","n"," ","o","p","t","i","o","n","a","l"," ","backtick","i","d","backtick"," ","q","u","e","r","y"," ","p","a","r","a","m","e","t","e","r"," ","c","a","n"," ","b","e"," ","p","r","o","v","i","d","e","d"," ","t","o"," ","s","e","t"," ","t","h","e"," ","r","e","s","o","u","r","c","e"," ","i","d","e","n","t","i","f","i","e","r",".">>
       [] opType = "update" ->
            <<"U","p","d","a","t","e","s"," ","a","n"," ","e","x","i","s","t","i","n","g"," ">> \o singular
              \o <<" ","u","s","i","n","g"," ","m","e","r","g","e","-","p","a","t","c","h"," ","s","e","m","a","n","t","i","c","s","."," ","O","n","l","y"," ","f","i","e","l","d","s"," ","i","n","c","l","u","d","e","d"," ","i","n"," ","t","h","e"," ","r","e","q","u","e","s","t"," ","b","o","d","y"," ","a","r","e"," ","m","o","d","i","f","i","e","d",".">>
       [] opType = "delete" -> <<"D","e","l","e","t","e","s"," ","a"," ">> \o singular \o <<".">>
       [] opType = "createOrReplace" ->
            <<"C","r","e","a","t","e","s"," ","o","r"," ","r","e","p","l","a","c","e","s"," ","a"," ">> \o singular \o <<"."," ","I","f"," ","t","h","e"," ">>
              \o singular \o <<" ","a","l","r","e","a","d","y"," ","e","x","i","s","t","s",","," ","i","t"," ","i","s"," ","f","u","l","l","y"," ","r","e","p","l","a","c","e","d",".">>
       [] OTHER -> <<>>

\* the suffix without the plural form for list
getOperationIdSuffixSingular(opType, metadata) == capitalize(metadata.singular)

getOperationIdSuffix(opType, metadata) ==
  IF opType = "list" THEN capitalize(metadata.plural)
  ELSE capitalize(metadata.singular)

\* the tag named after one resource instead of the collection
getTagNameSingular(metadata) == capitalize(metadata.singular)

getTagName(metadata) == capitalize(metadata.plural)

\* ------------------------------------------------------------------------
\* Operation Classifier
\* ------------------------------------------------------------------------
\* iface.operations.values(): the operations of the interface, in order
interfaceOperations(op) ==
  {sibling \in OpIds : /\ ops[sibling].svc = ops[op].svc
                       /\ ops[sibling].iface = ops[op].iface}

\* the siblings with a resource operation, whether or not the model resolves
resolvingSiblingsAnyModel(op) ==
  {sibling \in interfaceOperations(op) : getResourceOperation(sibling).has}

resolvingSiblings(op) ==
  {sibling \in interfaceOperations(op) :
     /\ getResourceOperation(sibling).has
     /\ getAepResourceMetadata(getResourceOperation(sibling).resourceType).has}

\* the last sibling that resolves instead of the first
findResourceForOperationLast(op) ==
  IF ops[op].iface = 0 \/ resolvingSiblings(op) = {}
  THEN [found |-> FALSE, model |-> 0, metadata |-> NoMetadata]
  ELSE LET sibling == CHOOSE s \in resolvingSiblings(op) :
                        \A x \in resolvingSiblings(op) : s >= x
           resOp == getResourceOperation(sibling)
       IN [found |-> TRUE, model |-> resOp.resourceType,
           metadata |-> getAepResourceMetadata(resOp.resourceType)]

NoResource == [found |-> FALSE, model |-> 0, metadata |-> NoMetadata]
findResourceForOperation(op) ==
  IF ops[op].iface = 0 \/ resolvingSiblings(op) = {} THEN NoResource
  ELSE LET sibling == CHOOSE s \in resolvingSiblings(op) :
                        \A x \in resolvingSiblings(op) : s <= x
           resOp == getResourceOperation(sibling)
       IN [found |-> TRUE, model |-> resOp.resourceType,
           metadata |-> getAepResourceMetadata(resOp.resourceType)]

\* ------------------------------------------------------------------------
\* The input graphs
\* ------------------------------------------------------------------------
\* @aepResource(type, singular, plural) of the i-th model
ResourceNames == <<
  AepResourceMetadata(<<"e","x","a","m","p","l","e",".","c","o","m","/","p","u","b","l","i","s","h","e","r">>, <<"p","u","b","l","i","s","h","e","r">>, <<"p","u","b","l","i","s","h","e","r","s">>),
  AepResourceMetadata(<<"e","x","a","m","p","l","e",".","c","o","m","/","b","o","o","k">>, <<"b","o","o","k">>, <<"b","o","o","k","s">>),
  AepResourceMetadata(<<"e","x","a","m","p","l","e",".","c","o","m","/","a","u","t","h","o","r">>, <<"a","u","t","h","o","r">>, <<"a","u","t","h","o","r","s">>),
  AepResourceMetadata(<<"e","x","a","m","p","l","e",".","c","o","m","/","c","h","a","p","t","e","r">>, <<"c","h","a","p","t","e","r">>, <<"c","h","a","p","t","e","r","s">>) >>

declaredMetadata(m) == ResourceNames[((m - 1) % Len(ResourceNames)) + 1]

Property(name, type, key, examples) ==
  [name |-> name, type |-> type, key |-> key, examples |-> examples]

\* @key id, path and one business field, none with an @example
PlainProperties == <<
  Property(<<"i","d">>, "string", TRUE, <<>>),
  Property(<<"p","a","t","h">>, "string", FALSE, <<>>),
  Property(<<"t","i","t","l","e">>, "string", FALSE, <<>>) >>

\* @example on the key and two on path, and a field of every kind of type
\* ("" is a type that is not a scalar)
ExampleProperties == <<
  Property(<<"i","d">>, "string", TRUE, <<makeStringValue(<<"a","c","m","e">>)>>),
  Property(<<"p","a","t","h">>, "string", FALSE, <<makeStringValue(<<"i","t","e","m","s","/","a","c","m","e">>),
                                         makeStringValue(<<"i","t","e","m","s","/","z","e","t","a">>)>>),
  Property(<<"r","a","n","k">>, "int32", FALSE, <<makeInt32Value(700)>>),
  Property(<<"c","o","u","n","t">>, "int32", FALSE, <<>>),
  Property(<<"t","o","t","a","l">>, "int64", FALSE, <<>>),
  Property(<<"p","r","i","c","e">>, "float64", FALSE, <<>>),
  Property(<<"r","a","t","i","o">>, "float32", FALSE, <<>>),
  Property(<<"a","c","t","i","v","e">>, "boolean", FALSE, <<>>),
  Property(<<"c","r","e","a","t","e","d">>, "utcDateTime", FALSE, <<>>),
  Property(<<"l","i","n","k">>, "url", FALSE, <<>>),
  Property(<<"l","a","b","e","l","s">>, "", FALSE, <<>>) >>

\* neither a key nor a path
BareProperties == << Property(<<"n","a","m","e">>, "string", FALSE, <<>>) >>

ModelRecord(meta, parent, ns, properties, filterDoc) ==
  [meta |-> meta, parent |-> parent, ns |-> ns, properties |-> properties,
   filterDoc |-> filterDoc]

NoResOp == [has |-> FALSE, operation |-> "", resourceType |-> 0]
ResOp(operation, resourceType) ==
  [has |-> TRUE, operation |-> operation, resourceType |-> resourceType]
NoAction == [has |-> FALSE, name |-> <<>>]
Action(name) == [has |-> TRUE, name |-> name]

\* The operations @typespec/rest tags, and the ones this pass names
ResourceOperations ==
  {"read", "list", "create", "update", "delete", "createOrReplace",
   "createOrUpdate"}

Variant(kind, results, next_page_token) ==
  [kind |-> kind, results |-> results, next_page_token |-> next_page_token]
\* T | AepError
PlainReturnType ==
  [kind |-> "Union", variants |-> <<Variant("Model", 0, FALSE),
                                     Variant("Model", 0, FALSE)>>]
\* AepListResponse<T> | AepError, r naming the response model
ListReturnType(r) ==
  [kind |-> "Union", variants |-> <<Variant("Model", r, TRUE),
                                     Variant("Model", 0, FALSE)>>]

OperationRecord(svc, iface, resOp, action, collectionAction, returnType, filter) ==
  [svc |-> svc, iface |-> iface, resOp |-> resOp, action |-> action,
   collectionAction |-> collectionAction, returnType |-> returnType,
   filter |-> filter]

\* What an operation is tagged with: at most one of the three tags.
OperationTags ==
  {[resOp |-> ResOp(k, m), action |-> NoAction, collectionAction |-> NoAction] :
     k \in ResourceOperations, m \in ModelIds}
  \cup {[resOp |-> NoResOp, action |-> Action(<<"a","r","c","h","i","v","e">>),
         collectionAction |-> NoAction],
        [resOp |-> NoResOp, action |-> NoAction,
         collectionAction |-> Action(<<"e","x","p","o","r","t">>)],
        [resOp |-> NoResOp, action |-> NoAction, collectionAction |-> NoAction]}

isAction(tags) == tags.action.has \/ tags.collectionAction.has

\* The siblings an action is placed next to
SiblingTags ==
  {tg \in OperationTags :
     \/ tg.resOp.has /\ tg.resOp.operation = "read"
     \/ tg.resOp.has /\ tg.resOp.operation = "list" /\ tg.resOp.resourceType = NumModels
     \/ ~tg.resOp.has}

AuthoredSummaries == {None, Some(<<"F","o","o">>)}

operationOf(svc, iface, tags, r) ==
  OperationRecord(svc, iface, tags.resOp, tags.action, tags.collectionAction,
                  IF tags.resOp.has /\ tags.resOp.operation = "list"
                  THEN ListReturnType(r) ELSE PlainReturnType,
                  tags.resOp.has /\ tags.resOp.operation = "list")

NoExtension == [set |-> FALSE, singular |-> <<>>, plural |-> <<>>,
                type |-> <<>>, patterns |-> <<>>]

\* Nothing has been derived yet and the pass is at its first service; the
\* fields of the list-response models carry the examples the author wrote.
InitPassWith(authoredExamples) ==
  /\ extension = [m \in ModelIds |-> NoExtension]
  /\ operationId = [o \in OpIds |-> None]
  /\ opTags = [o \in OpIds |-> <<>>]
  /\ opDoc = [o \in OpIds |-> None]
  /\ opExamples = [o \in OpIds |-> <<>>]
  /\ propExamples = authoredExamples
  /\ paramDoc = [o \in OpIds |-> None]
  /\ diagnostics = <<>>
  /\ pc = [run |-> 1, svc |-> 1, phase |-> "models", i |-> 1]

\* no list-response field carries an authored example
InitPass ==
  InitPassWith([r \in OpIds |-> [results |-> NoExamples,
                                 next_page_token |-> NoExamples]])

\* The three model bodies, rotated over the models by shift.
bodyOf(m, shift) ==
  LET k == (m + shift) % 3 IN
  IF k = 0 THEN [properties |-> PlainProperties, doc |-> None]
  ELSE IF k = 1
  THEN [properties |-> ExampleProperties, doc |-> Some(<<"A","u","t","h","o","r","e","d",".">>)]
  ELSE [properties |-> BareProperties, doc |-> None]

\* Resource forests of every shape: metadata or none, a parent among the
\* earlier models or none, declared in either direction; the models sit in
\* one service, the last one in any namespace (0 is outside every service).
\* The first interface of service 1 lists the last model and carries an
\* action; the remaining operations are top-level updates in the other
\* services.
InitModels ==
  /\ \E metas \in [ModelIds -> BOOLEAN],
        parents \in [ModelIds -> 0..NumModels],
        home \in Services, stray \in 0..NumServices, shift \in 0..2 :
       /\ \A m \in ModelIds : parents[m] < m
       /\ models = [m \in ModelIds |->
            ModelRecord(IF metas[m] THEN declaredMetadata(m) ELSE NoMetadata,
                        parents[m],
                        IF m = NumModels THEN stray ELSE home,
                        bodyOf(m, shift).properties, None)]
       /\ modelDoc = [m \in ModelIds |-> bodyOf(m, shift).doc]
       /\ tagsMetadata =
            [s \in Services |->
               IF s = 1 /\ shift = 1
               THEN [set |-> TRUE,
                     tags |-> <<[name |-> <<"Z","o","o">>,
                                 value |-> Some(<<"A","u","t","h","o","r","e","d"," ","t","a","g",".">>)]>>]
               ELSE IF s = 1 /\ shift = 2
               THEN [set |-> TRUE,
                     tags |-> <<[name |-> <<"P","u","b","l","i","s","h","e","r","s">>,
                                 value |-> Some(<<"A","u","t","h","o","r","e","d"," ","t","a","g",".">>)]>>]
               ELSE NoTags]
  /\ modelOrder \in {[i \in 1..NumModels |-> i],
                     [i \in 1..NumModels |-> NumModels + 1 - i]}
  /\ ops = [o \in OpIds |->
       IF o = 1
       THEN operationOf(1, 1, [resOp |-> ResOp("list", NumModels),
                               action |-> NoAction,
                               collectionAction |-> NoAction], 1)
       ELSE IF o = 2
       THEN operationOf(1, 1, [resOp |-> NoResOp,
                               action |-> Action(<<"a","r","c","h","i","v","e">>),
                               collectionAction |-> NoAction], o)
       ELSE operationOf(((o - 2) % NumServices) + 1, 0,
                        [resOp |-> ResOp("update", 1), action |-> NoAction,
                         collectionAction |-> NoAction], o)]
  /\ opSummary = [o \in OpIds |-> None]
  /\ InitPass

ReadOfRoot ==
  [resOp |-> ResOp("read", 1), action |-> NoAction, collectionAction |-> NoAction]

\* Operations of every kind: the first operation carries any tag, on any
\* model, with or without an authored summary, inside or outside an
\* interface; when it is an action, the two operations after it vary too.
\* The models are a root resource and the others below it or beside it,
\* the last one with or without metadata, inside or outside the service.
InitOperations ==
  /\ \E chained \in BOOLEAN, last \in {"resource", "outside", "plain"} :
       models = [m \in ModelIds |->
         ModelRecord(IF m = NumModels /\ last = "plain" THEN NoMetadata
                     ELSE declaredMetadata(m),
                     IF chained THEN m - 1 ELSE 0,
                     IF m = NumModels /\ last = "outside" THEN 0 ELSE 1,
                     IF m = 1 THEN ExampleProperties ELSE PlainProperties,
                     IF m = NumModels THEN Some(<<"C","u","s","t","o","m"," ","f","i","l","t","e","r",".">>) ELSE None)]
  /\ modelDoc = [m \in ModelIds |-> None]
  /\ modelOrder = [i \in 1..NumModels |-> i]
  /\ \E subject \in OperationTags, iface \in {0, 1},
        summary \in AuthoredSummaries,
        siblings \in [{2, 3} -> SiblingTags] :
       /\ ~isAction(subject) => \A o \in {2, 3} : siblings[o] = ReadOfRoot
       /\ ops = [o \in OpIds |->
            IF o = 1 THEN operationOf(1, iface, subject, o)
            ELSE IF o \in {2, 3} THEN operationOf(1, 1, siblings[o], o)
            ELSE operationOf(1, 1, ReadOfRoot, o)]
       /\ opSummary = [o \in OpIds |-> IF o = 1 THEN summary ELSE None]
  /\ tagsMetadata = [s \in Services |-> NoTags]
  /\ InitPass

\* What the first operation carries when the parent relation is a ring
CycleTags ==
  {tg \in OperationTags : ~isAction(tg) /\ (tg.resOp.has => tg.resOp.resourceType = 1)}

\* A parent relation that is a ring over the models: the parent of each model
\* is the next one and the parent of the last one is the first. The ring is
\* whole, or broken at the last model, which then carries no metadata. The
\* models lie in service 1 or outside every service; the first operation is
\* a standard operation on the first model or carries no tag, and the
\* operations beside it read the first model.
InitCycles ==
  /\ \E broken \in BOOLEAN, outside \in BOOLEAN :
       models = [m \in ModelIds |->
         ModelRecord(IF broken /\ m = NumModels THEN NoMetadata
                     ELSE declaredMetadata(m),
                     (m % NumModels) + 1,
                     IF outside THEN 0 ELSE 1,
                     PlainProperties, None)]
  /\ modelDoc = [m \in ModelIds |-> None]
  /\ modelOrder = [i \in 1..NumModels |-> i]
  /\ \E subject \in CycleTags :
       ops = [o \in OpIds |->
                IF o = 1 THEN operationOf(1, 1, subject, o)
                ELSE operationOf(1, 1, ReadOfRoot, o)]
  /\ opSummary = [o \in OpIds |-> None]
  /\ tagsMetadata = [s \in Services |-> NoTags]
  /\ InitPass

\* @example on a field of a list-response model
AuthoredExamples(has, value) ==
  IF has THEN [set |-> TRUE, list |-> <<value>>] ELSE NoExamples

\* List responses whose fields may carry an authored @example: a root
\* resource and the models below it in one chain; the first two operations
\* list the first model, through one shared response model or through one
\* each, and the first response model has an authored example on results, on
\* next_page_token, on both or on neither.
InitResponses ==
  /\ models = [m \in ModelIds |->
                 ModelRecord(declaredMetadata(m), m - 1, 1, PlainProperties, None)]
  /\ modelDoc = [m \in ModelIds |-> None]
  /\ modelOrder = [i \in 1..NumModels |-> i]
  /\ \E shared \in BOOLEAN :
       ops = [o \in OpIds |->
                IF o \in {1, 2}
                THEN operationOf(1, o, [resOp |-> ResOp("list", 1),
                                        action |-> NoAction,
                                        collectionAction |-> NoAction],
                                 IF shared THEN 1 ELSE o)
                ELSE operationOf(1, 1, ReadOfRoot, o)]
  /\ opSummary = [o \in OpIds |-> None]
  /\ tagsMetadata = [s \in Services |-> NoTags]
  /\ \E onResults \in BOOLEAN, onToken \in BOOLEAN :
       InitPassWith(
         [r \in OpIds |->
            IF r = 1
            THEN [results |->
                    AuthoredExamples(onResults,
                                     makeArrayValue(<<makeObjectValue(<<>>)>>)),
                  next_page_token |->
                    AuthoredExamples(onToken, makeStringValue(<<"a","b","c">>))]
            ELSE [results |-> NoExamples, next_page_token |-> NoExamples]])

\* One chain of resources in which every model below the root is declared
\* with its own type and plural and, when the names are shared, with the
\* singular of the root; the first operation is a standard operation on the
\* last model of the chain and the others read the root.
InitSharedNames ==
  /\ \E sameSingular \in BOOLEAN :
       models = [m \in ModelIds |->
         ModelRecord(AepResourceMetadata(declaredMetadata(m).type,
                                         IF sameSingular
                                         THEN declaredMetadata(1).singular
                                         ELSE declaredMetadata(m).singular,
                                         declaredMetadata(m).plural),
                     m - 1, 1, PlainProperties, None)]
  /\ modelDoc = [m \in ModelIds |-> None]
  /\ modelOrder = [i \in 1..NumModels |-> i]
  /\ \E operation \in {"read", "list", "update"} :
       ops = [o \in OpIds |->
                IF o = 1
                THEN operationOf(1, 1, [resOp |-> ResOp(operation, NumModels),
                                        action |-> NoAction,
                                        collectionAction |-> NoAction], o)
                ELSE operationOf(1, 1, ReadOfRoot, o)]
  /\ opSummary = [o \in OpIds |-> None]
  /\ tagsMetadata = [s \in Services |-> NoTags]
  /\ InitPass

\* Two root resources whose names are the same word, the second declared
\* with a capital first letter when the names clash; the first two operations
\* are the same standard operation, one on each, and the others carry no tag.
InitNameClashes ==
  /\ \E clash \in BOOLEAN :
       models = [m \in ModelIds |->
         ModelRecord(IF m = 2 /\ clash
                     THEN AepResourceMetadata(<<"e","x","a","m","p","l","e",".","c","o","m","/","P","u","b","l","i","s","h","e","r">>,
                                              <<"P","u","b","l","i","s","h","e","r">>, <<"P","u","b","l","i","s","h","e","r","s">>)
                     ELSE declaredMetadata(m),
                     0, 1, PlainProperties, None)]
  /\ modelDoc = [m \in ModelIds |-> None]
  /\ modelOrder = [i \in 1..NumModels |-> i]
  /\ \E operation \in {"read", "list"} :
       ops = [o \in OpIds |->
                operationOf(1, 1,
                            [resOp |-> IF o \in {1, 2} THEN ResOp(operation, o)
                                       ELSE NoResOp,
                             action |-> NoAction,
                             collectionAction |-> NoAction], o)]
  /\ opSummary = [o \in OpIds |-> None]
  /\ tagsMetadata = [s \in Services |-> NoTags]
  /\ InitPass

Init ==
  \/ InitModels \/ InitOperations \/ InitCycles \/ InitResponses
  \/ InitSharedNames \/ InitNameClashes

\* ------------------------------------------------------------------------
\* setAepOperationId: one operation of the operation sweep
\* ------------------------------------------------------------------------
opAnnotations == <<operationId, opTags, opSummary, opDoc, opExamples,
                   propExamples, paramDoc>>

\* The branch for standard resource operations.
setResourceOperation(op, resOp, metadata) ==
  LET prefix == operationPrefix(resOp.operation)
      suffix == getOperationIdSuffix(resOp.operation, metadata)
      summary == getOperationSummary(resOp.operation, metadata)
      doc == getOperationDescription(resOp.operation, metadata)
      example == buildOperationExample(resOp.operation, resOp.resourceType, metadata)
      customFilterDoc == getAepCollectionFilterDoc(resOp.resourceType)
  IN /\ operationId' = [operationId EXCEPT ![op] = Some(prefix \o suffix)]
     /\ opTags' = [opTags EXCEPT ![op] = Append(@, getTagName(metadata))]
     /\ opSummary' = [opSummary EXCEPT
                        ![op] = IF summary # <<>> THEN Some(summary) ELSE @]
     /\ opDoc' = [opDoc EXCEPT ![op] = IF doc # <<>> THEN Some(doc) ELSE @]
     /\ IF exceedsCallStack(resOp.resourceType)
        THEN \* buildOperationExample throws: nothing after it is reached
             UNCHANGED <<opExamples, propExamples, paramDoc>>
        ELSE /\ opExamples' = [opExamples EXCEPT
                                 ![op] = setErrorExamples(
                                           IF example # NoExample
                                           THEN setOpExample(@, example) ELSE @)]
             /\ propExamples' =
                  IF resOp.operation = "list"
                  THEN setListResultsExample(propExamples, op, resOp.resourceType,
                                             metadata)
                  ELSE propExamples
             /\ paramDoc' =
                  IF /\ resOp.operation = "list"
                     /\ customFilterDoc.set /\ customFilterDoc.v # <<>>
                     /\ ops[op].filter
                  THEN [paramDoc EXCEPT ![op] = customFilterDoc]
                  ELSE paramDoc

\* The branches for custom actions and collection actions (AEP-136);
\* the suffix is the singular name for an action and the plural for a
\* collection action.
setActionOperation(op, details, collection) ==
  LET resource == findResourceForOperation(op)
      suffix == IF collection THEN resource.metadata.plural
                ELSE resource.metadata.singular
      hasSummary == opSummary[op].set /\ opSummary[op].v # <<>>
  IN /\ operationId' =
          IF resource.found
          THEN [operationId EXCEPT
                  ![op] = Some(<<":">> \o capitalize(details.name)
                                 \o capitalize(suffix))]
          ELSE operationId
     /\ opTags' =
          IF resource.found
          THEN [opTags EXCEPT ![op] = Append(@, getTagName(resource.metadata))]
          ELSE opTags
     /\ opSummary' =
          IF resource.found /\ ~hasSummary
          THEN [opSummary EXCEPT
                  ![op] = Some(capitalize(details.name) \o <<" ">>
                                 \o capitalize(suffix))]
          ELSE opSummary
     /\ IF resource.found /\ exceedsCallStack(resource.model)
        THEN \* buildGetExample throws: nothing after it is reached
             UNCHANGED opExamples
        ELSE opExamples' =
               [opExamples EXCEPT
                  ![op] = setErrorExamples(
                            IF resource.found
                            THEN setOpExample(@, buildGetExample(resource.model,
                                                                 resource.metadata))
                            ELSE @)]
     /\ UNCHANGED <<opDoc, propExamples, paramDoc>>

\* setAepOperationId leaves by a RangeError instead of returning.
throwsRangeError(op) ==
  LET resOp == getResourceOperation(op)
      resource == findResourceForOperation(op)
  IN IF resOp.has
     THEN /\ getAepResourceMetadata(resOp.resourceType).has
          /\ operationPrefix(resOp.operation) # <<>>
          /\ exceedsCallStack(resOp.resourceType)
     ELSE /\ getActionDetails(op).has \/ getCollectionActionDetails(op).has
          /\ resource.found
          /\ exceedsCallStack(resource.model)

setAepOperationId(op) ==
  LET resOp == getResourceOperation(op)
      actionDetails == getActionDetails(op)
      collectionAction == getCollectionActionDetails(op)
  IN IF resOp.has
     THEN LET metadata == getAepResourceMetadata(resOp.resourceType) IN
          IF ~metadata.has \/ operationPrefix(resOp.operation) = <<>>
          THEN UNCHANGED opAnnotations
          ELSE setResourceOperation(op, resOp, metadata)
     ELSE IF actionDetails.has
     THEN setActionOperation(op, actionDetails, FALSE)
     ELSE IF collectionAction.has
     THEN setActionOperation(op, collectionAction, TRUE)
     ELSE UNCHANGED opAnnotations

\* ------------------------------------------------------------------------
\* Tag registry
\* ------------------------------------------------------------------------
\* the registration that writes the generated description over any entry
ensureTagMetadataOverwriting(registry, metadata) ==
  [set |-> TRUE,
   tags |-> MapSet(registry.tags, getTagName(metadata),
                   Some(<<"O","p","e","r","a","t","i","o","n","s"," ","f","o","r"," ","m","a","n","a","g","i","n","g"," ">> \o metadata.plural \o <<".">>))]

\* The tag map of the service namespace after ensureTagMetadata.
ensureTagMetadata(registry, metadata) ==
  LET tagName == getTagName(metadata) IN
  IF MapHas(registry.tags, tagName) THEN [registry EXCEPT !.set = TRUE]
  ELSE [set |-> TRUE,
        tags |-> Append(registry.tags,
                        [name |-> tagName,
                         value |-> Some(<<"O","p","e","r","a","t","i","o","n","s"," ","f","o","r"," ","m","a","n","a","g","i","n","g"," ">>
                                          \o metadata.plural \o <<".">>)])]

\* Array.prototype.sort() on strings
RECURSIVE insertSorted(_, _)
insertSorted(sorted, key) ==
  IF sorted = <<>> THEN <<key>>
  ELSE IF StrLess(key, Head(sorted)) THEN <<key>> \o sorted
  ELSE <<Head(sorted)>> \o insertSorted(Tail(sorted), key)

\* the keys left in insertion order
sortNothing(keys) == keys

RECURSIVE sort(_)
sort(keys) ==
  IF keys = <<>> THEN <<>>
  ELSE insertSorted(sort(SubSeq(keys, 1, Len(keys) - 1)), keys[Len(keys)])

\* The tag map rebuilt in the order of its sorted keys.
sortTags(registry) ==
  IF ~registry.set THEN registry
  ELSE LET keys == sort(MapKeys(registry.tags)) IN
       [set |-> TRUE,
        tags |-> [i \in 1..Len(keys) |->
                    [name |-> keys[i],
                     value |-> registry.tags[
                        CHOOSE j \in 1..Len(registry.tags) :
                          registry.tags[j].name = keys[i]].value]]]

\* ------------------------------------------------------------------------
\* $onValidate
\* ------------------------------------------------------------------------
\* navigateTypesInNamespace(service.type): the models of the namespace
namespaceModels(service) ==
  SelectSeq(modelOrder, LAMBDA m : models[m].ns = service)

\* iface.operations of every interface of the namespace, then the
\* namespace's top-level operations
RECURSIVE inOrder(_)
inOrder(S) ==
  IF S = {} THEN <<>>
  ELSE LET first == CHOOSE o \in S : \A x \in S :
                      \/ ops[o].iface < ops[x].iface
                      \/ (ops[o].iface = ops[x].iface /\ o <= x)
       IN <<first>> \o inOrder(S \ {first})

\* the namespace's top-level operations only
serviceOperationsTopLevelOnly(service) ==
  inOrder({o \in OpIds : ops[o].svc = service /\ ops[o].iface = 0})

serviceOperations(service) ==
  inOrder({o \in OpIds : ops[o].svc = service /\ ops[o].iface # 0})
    \o inOrder({o \in OpIds : ops[o].svc = service /\ ops[o].iface = 0})

\* the extension with singular and plural exchanged
aepResourceExtensionSwapped(model, metadata) ==
  [set |-> TRUE,
   singular |-> metadata.plural,
   plural |-> metadata.singular,
   type |-> metadata.type,
   patterns |-> <<buildPattern(model, metadata)>>]

\* The value of the x-aep-resource extension the model callback sets.
aepResourceExtension(model, metadata) ==
  [set |-> TRUE,
   singular |-> metadata.singular,
   plural |-> metadata.plural,
   type |-> metadata.type,
   patterns |-> <<buildPattern(model, metadata)>>]

\* The model callback of the model sweep.
ModelSweep ==
  /\ pc.phase = "models"
  /\ pc.i <= Len(namespaceModels(pc.svc))
  /\ LET model == namespaceModels(pc.svc)[pc.i]
         metadata == getAepResourceMetadata(model)
     IN IF ~metadata.has
        THEN /\ UNCHANGED <<extension, modelDoc, tagsMetadata>>
             /\ pc' = [pc EXCEPT !.i = @ + 1]
        ELSE IF exceedsCallStack(model)
        THEN \* buildPattern throws before anything is written
             /\ UNCHANGED <<extension, modelDoc, tagsMetadata>>
             /\ pc' = [pc EXCEPT !.phase = "thrown"]
        ELSE /\ pc' = [pc EXCEPT !.i = @ + 1]
             /\ extension' =
                  [extension EXCEPT ![model] = aepResourceExtension(model, metadata)]
             /\ modelDoc' =
                  [modelDoc EXCEPT
                     ![model] = IF ~(@.set /\ @.v # <<>>)
                                THEN Some(<<"A"," ">> \o metadata.singular
                                            \o <<" ","r","e","s","o","u","r","c","e",".">>)
                                ELSE @]
             /\ tagsMetadata' =
                  [tagsMetadata EXCEPT
                     ![pc.svc] = ensureTagMetadata(@, metadata)]
  /\ UNCHANGED <<graph, opAnnotations, diagnostics>>

\* the sort reordering the declared models along with the tags
TagSortReorderingModels ==
  /\ pc.phase = "models"
  /\ pc.i > Len(namespaceModels(pc.svc))
  /\ tagsMetadata' = [tagsMetadata EXCEPT ![pc.svc] = sortTags(@)]
  /\ modelOrder' = [i \in 1..NumModels |-> modelOrder[NumModels + 1 - i]]
  /\ pc' = [pc EXCEPT !.phase = "operations", !.i = 1]
  /\ UNCHANGED <<models, ops, extension, modelDoc, opAnnotations, diagnostics>>

\* Sort tags alphabetically, once the model sweep of the service is over.
TagSort ==
  /\ pc.phase = "models"
  /\ pc.i > Len(namespaceModels(pc.svc))
  /\ tagsMetadata' = [tagsMetadata EXCEPT ![pc.svc] = sortTags(@)]
  /\ pc' = [pc EXCEPT !.phase = "operations", !.i = 1]
  /\ UNCHANGED <<graph, extension, modelDoc, opAnnotations, diagnostics>>

\* One operation of the operation sweep.
OperationSweep ==
  /\ pc.phase = "operations"
  /\ pc.i <= Len(serviceOperations(pc.svc))
  /\ setAepOperationId(serviceOperations(pc.svc)[pc.i])
  /\ pc' = IF throwsRangeError(serviceOperations(pc.svc)[pc.i])
           THEN [pc EXCEPT !.phase = "thrown"]
           ELSE [pc EXCEPT !.i = @ + 1]
  /\ UNCHANGED <<graph, extension, modelDoc, tagsMetadata, diagnostics>>

\* the service loop going back to the model sweep of the same service
NextServiceLoopBack ==
  /\ pc.phase = "operations"
  /\ pc.i > Len(serviceOperations(pc.svc))
  /\ pc' = [pc EXCEPT !.phase = "models", !.i = 1]
  /\ UNCHANGED <<graph, annotations, diagnostics>>

\* The loop over listServices(program) moves on, or the pass returns.
NextService ==
  /\ pc.phase = "operations"
  /\ pc.i > Len(serviceOperations(pc.svc))
  /\ pc' = IF pc.svc < NumServices
           THEN [pc EXCEPT !.svc = @ + 1, !.phase = "models", !.i = 1]
           ELSE [pc EXCEPT !.phase = "done", !.i = 0]
  /\ UNCHANGED <<graph, annotations, diagnostics>>

Next == ModelSweep \/ TagSort \/ OperationSweep \/ NextService

Spec == Init /\ [][Next]_vars

\* $onValidate is called once more on the same program.
Rerun ==
  /\ pc.phase = "done"
  /\ pc.run < MaxRuns
  /\ pc' = [run |-> pc.run + 1, svc |-> 1, phase |-> "models", i |-> 1]
  /\ UNCHANGED <<graph, annotations, diagnostics>>

NextRerun == Next \/ Rerun

SpecRerun == Init /\ [][NextRerun]_vars

\* ------------------------------------------------------------------------
\* Properties
\* ------------------------------------------------------------------------
\* The capitalised forms of the declared names, written out.
NameForms == <<
  [singular |-> <<"p","u","b","l","i","s","h","e","r">>, plural |-> <<"p","u","b","l","i","s","h","e","r","s">>,
   Singular |-> <<"P","u","b","l","i","s","h","e","r">>, Plural |-> <<"P","u","b","l","i","s","h","e","r","s">>],
  [singular |-> <<"b","o","o","k">>, plural |-> <<"b","o","o","k","s">>,
   Singular |-> <<"B","o","o","k">>, Plural |-> <<"B","o","o","k","s">>],
  [singular |-> <<"a","u","t","h","o","r">>, plural |-> <<"a","u","t","h","o","r","s">>,
   Singular |-> <<"A","u","t","h","o","r">>, Plural |-> <<"A","u","t","h","o","r","s">>],
  [singular |-> <<"c","h","a","p","t","e","r">>, plural |-> <<"c","h","a","p","t","e","r","s">>,
   Singular |-> <<"C","h","a","p","t","e","r">>, Plural |-> <<"C","h","a","p","t","e","r","s">>],
  [singular |-> <<"P","u","b","l","i","s","h","e","r">>, plural |-> <<"P","u","b","l","i","s","h","e","r","s">>,
   Singular |-> <<"P","u","b","l","i","s","h","e","r">>, Plural |-> <<"P","u","b","l","i","s","h","e","r","s">>] >>

CapSingular(metadata) ==
  NameForms[CHOOSE i \in 1..Len(NameForms) :
              NameForms[i].singular = metadata.singular].Singular
CapPlural(metadata) ==
  NameForms[CHOOSE i \in 1..Len(NameForms) :
              NameForms[i].plural = metadata.plural].Plural

\* "<plural>/{<singular>}"
Segment(metadata) == metadata.plural \o <<"/","{">> \o metadata.singular \o <<"}">>

\* The resource chain of a model, root ancestor first: the model and, as long
\* as the parent carries ResourceMetadata, its ancestors.
RECURSIVE ResourceChain(_)
ResourceChain(m) ==
  IF models[m].parent # 0 /\ models[models[m].parent].meta.has
  THEN Append(ResourceChain(models[m].parent), m)
  ELSE <<m>>

RECURSIVE JoinSegments(_)
JoinSegments(chain) ==
  IF Len(chain) = 1 THEN Segment(models[chain[1]].meta)
  ELSE JoinSegments(SubSeq(chain, 1, Len(chain) - 1)) \o <<"/">>
         \o Segment(models[chain[Len(chain)]].meta)

Count(s, c) == Cardinality({i \in 1..Len(s) : s[i] = c})

\* The operation has been through setAepOperationId.
Swept(o) ==
  \/ pc.phase = "done"
  \/ ops[o].svc < pc.svc
  \/ /\ ops[o].svc = pc.svc
     /\ pc.phase = "operations"
     /\ \E i \in 1..(pc.i - 1) : serviceOperations(pc.svc)[i] = o

\* The model has been through the model callback.
Visited(m) ==
  /\ models[m].ns \in Services
  /\ \/ pc.phase \in {"done", "operations"} /\ models[m].ns <= pc.svc
     \/ models[m].ns < pc.svc
     \/ /\ models[m].ns = pc.svc
        /\ pc.phase = "models"
        /\ \E i \in 1..(pc.i - 1) : namespaceModels(pc.svc)[i] = m

\* C1: the pattern the model sweep stores for a resource model is
\* "<plural>/{<singular>}" when the model has no parent, and the parent's
\* pattern followed by "/<plural>/{<singular>}" when its parent is a resource;
\* a chain of depth n gives n segments, root ancestor first.
C1_PatternCorrect ==
  \A m \in ModelIds :
    (Visited(m) /\ models[m].meta.has) =>
      LET pattern == extension[m].patterns[1]
          parent == models[m].parent
          chain == ResourceChain(m)
      IN /\ parent = 0 => pattern = Segment(models[m].meta)
         /\ (parent # 0 /\ models[parent].meta.has) =>
              /\ pattern = JoinSegments(ResourceChain(parent)) \o <<"/">>
                             \o Segment(models[m].meta)
              /\ (Visited(parent) =>
                    pattern = extension[parent].patterns[1] \o <<"/">>
                                \o Segment(models[m].meta))
         /\ pattern = JoinSegments(chain)
         /\ Count(pattern, "{") = Len(chain)
         /\ Count(pattern, "/") = 2 * Len(chain) - 1

\* a child resource and its parent resource both have their patterns
C1_Witness ==
  \E m \in ModelIds :
    /\ Visited(m) /\ models[m].meta.has
    /\ models[m].parent # 0 /\ models[models[m].parent].meta.has
    /\ Visited(models[m].parent)
    /\ Len(extension[m].patterns[1]) > Len(Segment(models[m].meta))

ExpectedCrudId(operation, metadata) ==
  CASE operation = "read" -> <<"G","e","t">> \o CapSingular(metadata)
    [] operation = "list" -> <<"L","i","s","t">> \o CapPlural(metadata)
    [] operation = "create" -> <<"C","r","e","a","t","e">> \o CapSingular(metadata)
    [] operation = "update" -> <<"U","p","d","a","t","e">> \o CapSingular(metadata)
    [] operation = "delete" -> <<"D","e","l","e","t","e">> \o CapSingular(metadata)
    [] operation = "createOrReplace" -> <<"A","p","p","l","y">> \o CapSingular(metadata)

ClassifiedKinds ==
  {"read", "list", "create", "update", "delete", "createOrReplace"}

\* a standard resource operation of one of the six kinds on a resource
IsCrud(o) ==
  /\ ops[o].resOp.has
  /\ ops[o].resOp.operation \in ClassifiedKinds
  /\ models[ops[o].resOp.resourceType].meta.has

\* The siblings that can lend an action their resource, and the first of them
LendingSiblings(o) ==
  {x \in OpIds : /\ ops[x].svc = ops[o].svc /\ ops[x].iface = ops[o].iface
                 /\ ops[o].iface # 0
                 /\ ops[x].resOp.has
                 /\ models[ops[x].resOp.resourceType].meta.has}
IsResolvedAction(o) ==
  /\ ~ops[o].resOp.has
  /\ ops[o].action.has \/ ops[o].collectionAction.has
  /\ LendingSiblings(o) # {}
OwningModel(o) ==
  ops[CHOOSE x \in LendingSiblings(o) :
        \A y \in LendingSiblings(o) : x <= y].resOp.resourceType

\* C3: the operation ID of a classified operation follows the table:
\* Get/Create/Update/Delete/Apply + Singular, List + Plural,
\* ":" + Name + Singular for a custom action and ":" + Name + Plural for a
\* collection action; action IDs start with a colon and CRUD IDs do not.
C3_OperationIdTable ==
  \A o \in OpIds :
    Swept(o) =>
      /\ IsCrud(o) =>
           /\ operationId[o] =
                Some(ExpectedCrudId(ops[o].resOp.operation,
                                    models[ops[o].resOp.resourceType].meta))
           /\ Head(operationId[o].v) # ":"
      /\ (IsResolvedAction(o) /\ ops[o].action.has) =>
           /\ ops[o].action.name = <<"a","r","c","h","i","v","e">>
           /\ operationId[o] =
                Some(<<":","A","r","c","h","i","v","e">> \o CapSingular(models[OwningModel(o)].meta))
           /\ Head(operationId[o].v) = ":"
      /\ (IsResolvedAction(o) /\ ~ops[o].action.has) =>
           /\ ops[o].collectionAction.name = <<"e","x","p","o","r","t">>
           /\ operationId[o] =
                Some(<<":","E","x","p","o","r","t">> \o CapPlural(models[OwningModel(o)].meta))
           /\ Head(operationId[o].v) = ":"

\* a resolved custom action and a standard resource operation have their IDs
C3_Witness ==
  /\ \E o \in OpIds : Swept(o) /\ IsResolvedAction(o) /\ ops[o].action.has
                      /\ operationId[o].set
  /\ \E o \in OpIds : Swept(o) /\ IsCrud(o) /\ operationId[o].set

\* The operation setAepOperationId is about to run on.
Sweeping(o) ==
  /\ pc.phase = "operations"
  /\ pc.i <= Len(serviceOperations(pc.svc))
  /\ serviceOperations(pc.svc)[pc.i] = o

\* The summary the per-kind template gives.
ExpectedSummary(o) ==
  IF ops[o].resOp.has
  THEN LET metadata == models[ops[o].resOp.resourceType].meta
           operation == ops[o].resOp.operation
       IN CASE operation = "read" -> <<"G","e","t"," ">> \o CapSingular(metadata)
            [] operation = "list" -> <<"L","i","s","t"," ">> \o CapPlural(metadata)
            [] operation = "create" -> <<"C","r","e","a","t","e"," ">> \o CapSingular(metadata)
            [] operation = "update" -> <<"U","p","d","a","t","e"," ">> \o CapSingular(metadata)
            [] operation = "delete" -> <<"D","e","l","e","t","e"," ">> \o CapSingular(metadata)
            [] operation = "createOrReplace" -> <<"A","p","p","l","y"," ">> \o CapSingular(metadata)
  ELSE IF ops[o].action.has
  THEN <<"A","r","c","h","i","v","e"," ">> \o CapSingular(models[OwningModel(o)].meta)
  ELSE <<"E","x","p","o","r","t"," ">> \o CapPlural(models[OwningModel(o)].meta)

\* C4: an operation that has a summary before the pass keeps it, whatever its
\* kind; one that has none gets the per-kind template.
C4_SummaryNonDestructive ==
  [][\A o \in OpIds :
       (Sweeping(o) /\ (IsCrud(o) \/ IsResolvedAction(o))) =>
         opSummary'[o] = IF opSummary[o].set THEN opSummary[o]
                         ELSE Some(ExpectedSummary(o))]_vars

\* C5: every classified operation whose resource resolves has a description
\* written by the pass, custom actions and collection actions included.
C5_DescriptionForEveryKind ==
  \A o \in OpIds :
    (Swept(o) /\ (IsCrud(o) \/ IsResolvedAction(o))) =>
      opDoc[o].set /\ opDoc[o].v # <<>>

\* The six error examples, written out.
ExpectedErrors == <<
  [status |-> 400, type |-> <<"h","t","t","p","s",":","/","/","e","x","a","m","p","l","e",".","c","o","m","/","e","r","r","o","r","s","/","b","a","d","-","r","e","q","u","e","s","t">>,
   title |-> <<"B","a","d"," ","R","e","q","u","e","s","t">>, detail |-> <<"T","h","e"," ","r","e","q","u","e","s","t"," ","w","a","s"," ","i","n","v","a","l","i","d",".">>],
  [status |-> 401, type |-> <<"h","t","t","p","s",":","/","/","e","x","a","m","p","l","e",".","c","o","m","/","e","r","r","o","r","s","/","u","n","a","u","t","h","o","r","i","z","e","d">>,
   title |-> <<"U","n","a","u","t","h","o","r","i","z","e","d">>, detail |-> <<"A","u","t","h","e","n","t","i","c","a","t","i","o","n"," ","i","s"," ","r","e","q","u","i","r","e","d",".">>],
  [status |-> 403, type |-> <<"h","t","t","p","s",":","/","/","e","x","a","m","p","l","e",".","c","o","m","/","e","r","r","o","r","s","/","f","o","r","b","i","d","d","e","n">>,
   title |-> <<"F","o","r","b","i","d","d","e","n">>, detail |-> <<"P","e","r","m","i","s","s","i","o","n"," ","d","e","n","i","e","d",".">>],
  [status |-> 404, type |-> <<"h","t","t","p","s",":","/","/","e","x","a","m","p","l","e",".","c","o","m","/","e","r","r","o","r","s","/","n","o","t","-","f","o","u","n","d">>,
   title |-> <<"N","o","t"," ","F","o","u","n","d">>, detail |-> <<"T","h","e"," ","r","e","s","o","u","r","c","e"," ","w","a","s"," ","n","o","t"," ","f","o","u","n","d",".">>],
  [status |-> 409, type |-> <<"h","t","t","p","s",":","/","/","e","x","a","m","p","l","e",".","c","o","m","/","e","r","r","o","r","s","/","c","o","n","f","l","i","c","t">>,
   title |-> <<"C","o","n","f","l","i","c","t">>, detail |-> <<"T","h","e"," ","r","e","s","o","u","r","c","e"," ","a","l","r","e","a","d","y"," ","e","x","i","s","t","s",".">>],
  [status |-> 500, type |-> <<"h","t","t","p","s",":","/","/","e","x","a","m","p","l","e",".","c","o","m","/","e","r","r","o","r","s","/","i","n","t","e","r","n","a","l","-","s","e","r","v","e","r","-","e","r","r","o","r">>,
   title |-> <<"I","n","t","e","r","n","a","l"," ","S","e","r","v","e","r"," ","E","r","r","o","r">>,
   detail |-> <<"A","n"," ","i","n","t","e","r","n","a","l"," ","e","r","r","o","r"," ","o","c","c","u","r","r","e","d",".">>] >>

\* classified: one of the six CRUD kinds on a resource, or any action
IsClassified(o) ==
  \/ IsCrud(o)
  \/ ~ops[o].resOp.has /\ (ops[o].action.has \/ ops[o].collectionAction.has)

\* the examples of an operation that carry a status
ErrorExamplesOf(o) ==
  SelectSeq(opExamples[o], LAMBDA e : MapHas(e.returnType.items, <<"_">>))

\* C6: every classified operation, resolved or not, has exactly the six error
\* examples 400, 401, 403, 404, 409, 500, each with a title, a detail and the
\* type "https://example.com/errors/" + slug(title); they are the same for
\* all operations.
C6_SixErrorExamples ==
  \A o \in OpIds :
    (Swept(o) /\ IsClassified(o)) =>
      LET errs == ErrorExamplesOf(o) IN
      /\ Len(errs) = 6
      /\ \A i \in 1..6 :
           LET e == errs[i].returnType.items IN
           /\ MapGet(e, <<"_">>) = makeInt32Value(ExpectedErrors[i].status * 100)
           /\ MapGet(e, <<"s","t","a","t","u","s">>) = makeInt32Value(ExpectedErrors[i].status * 100)
           /\ MapGet(e, <<"t","y","p","e">>) = makeStringValue(ExpectedErrors[i].type)
           /\ MapGet(e, <<"t","i","t","l","e">>) = makeStringValue(ExpectedErrors[i].title)
           /\ MapGet(e, <<"d","e","t","a","i","l">>) = makeStringValue(ExpectedErrors[i].detail)
           /\ MapGet(e, <<"t","i","t","l","e">>).str # <<>>
           /\ MapGet(e, <<"d","e","t","a","i","l">>).str # <<>>
      /\ \A p \in OpIds :
           (Swept(p) /\ IsClassified(p)) => ErrorExamplesOf(p) = errs

\* an unresolved action and a CRUD operation both carry error examples
C6_Witness ==
  /\ \E o \in OpIds :
       /\ Swept(o) /\ IsClassified(o) /\ ~IsCrud(o) /\ ~IsResolvedAction(o)
       /\ Len(opExamples[o]) = 6
  /\ \E o \in OpIds : Swept(o) /\ IsCrud(o) /\ Len(opExamples[o]) = 7

\* C7: the success example of a list operation returns an object whose
\* results is a sequence of exactly one element, the full resource example
\* of the model, and whose next_page_token is the empty string.
C7_ListResponseShape ==
  \A o \in OpIds :
    (Swept(o) /\ IsCrud(o) /\ ops[o].resOp.operation = "list") =>
      LET m == ops[o].resOp.resourceType
          returnType == opExamples[o][1].returnType
          results == MapGet(returnType.items, <<"r","e","s","u","l","t","s">>)
      IN /\ returnType.kind = "object"
         /\ MapKeys(returnType.items) = <<<<"r","e","s","u","l","t","s">>, <<"n","e","x","t","_","p","a","g","e","_","t","o","k","e","n">>>>
         /\ results.kind = "array"
         /\ Len(results.items) = 1
         /\ results.items[1].value = buildResourceExample(m, models[m].meta, TRUE)
         /\ MapGet(returnType.items, <<"n","e","x","t","_","p","a","g","e","_","t","o","k","e","n">>) = makeStringValue(<<>>)

\* a list operation on a resource whose example has fields
C7_Witness ==
  \E o \in OpIds :
    /\ Swept(o) /\ IsCrud(o) /\ ops[o].resOp.operation = "list"
    /\ Len(opExamples[o]) = 7
    /\ Len(MapGet(opExamples[o][1].returnType.items, <<"r","e","s","u","l","t","s">>).items[1]
             .value.items) >= 3

\* the names of the key properties of a model
KeyNames(m) ==
  {models[m].properties[i].name : i \in
     {j \in 1..Len(models[m].properties) : models[m].properties[j].key}}
PropertyNames(m) ==
  {models[m].properties[i].name : i \in 1..Len(models[m].properties)}

\* C8: the request body example of an update operation has no key field and
\* no field named path, whether or not those fields declare examples; the
\* response example has both whenever the model declares them; the
\* parameters carry contentType "application/merge-patch+json".
C8_UpdateExcludesIdentity ==
  \A o \in OpIds :
    (Swept(o) /\ IsCrud(o) /\ ops[o].resOp.operation = "update") =>
      LET m == ops[o].resOp.resourceType
          parameters == opExamples[o][1].parameters
          body == MapGet(parameters.items, <<"r","e","s","o","u","r","c","e">>)
          response == opExamples[o][1].returnType
      IN /\ body.kind = "object"
         /\ \A k \in KeyNames(m) \cup {<<"p","a","t","h">>} : ~MapHas(body.items, k)
         /\ \A k \in KeyNames(m) : MapHas(response.items, k)
         /\ <<"p","a","t","h">> \in PropertyNames(m) => MapHas(response.items, <<"p","a","t","h">>)
         /\ MapGet(parameters.items, <<"c","o","n","t","e","n","t","T","y","p","e">>) =
              makeStringValue(<<"a","p","p","l","i","c","a","t","i","o","n","/","m","e","r","g","e","-","p","a","t","c","h","+","j","s","o","n">>)

\* an update on a model that declares a key and a path with examples
C8_Witness ==
  \E o \in OpIds :
    /\ Swept(o) /\ IsCrud(o) /\ ops[o].resOp.operation = "update"
    /\ LET m == ops[o].resOp.resourceType IN
       /\ models[m].properties = ExampleProperties
       /\ MapHas(opExamples[o][1].returnType.items, <<"p","a","t","h">>)
       /\ MapHas(opExamples[o][1].returnType.items, <<"i","d">>)
       /\ Len(MapGet(opExamples[o][1].parameters.items, <<"r","e","s","o","u","r","c","e">>).items) >= 1

\* the tag map of the service has been through the sort
Sorted(s) ==
  \/ pc.svc > s
  \/ pc.svc = s /\ pc.phase \in {"operations", "done"}

\* C9: iterating the tag map of a service, once sorted and to the end of the
\* pass, yields the tag names in ascending order, whatever order the model
\* sweep registered them in.
C9_TagsSorted ==
  \A s \in Services :
    Sorted(s) =>
      \A i, j \in 1..Len(tagsMetadata[s].tags) :
        i < j => StrLess(tagsMetadata[s].tags[i].name,
                         tagsMetadata[s].tags[j].name)

\* two resources registered in descending order of their tags, after the pass
C9_Witness ==
  /\ pc.phase = "done"
  /\ \E s \in Services :
       /\ Len(tagsMetadata[s].tags) >= 2
       /\ \E i, j \in 1..Len(namespaceModels(s)) :
            LET a == namespaceModels(s)[i]
                b == namespaceModels(s)[j]
            IN /\ i < j /\ models[a].meta.has /\ models[b].meta.has
               /\ StrLess(getTagName(models[b].meta), getTagName(models[a].meta))

\* The success example of a custom action on model m.
ExpectedActionExample(m) ==
  [parameters |-> makeObjectValue(collectPathParams(m, models[m].meta)),
   returnType |-> buildResourceExample(m, models[m].meta, TRUE)]

\* read siblings of a custom action, on resources
ReadSiblings(a) ==
  {r \in LendingSiblings(a) : ops[r].resOp.operation = "read"}

\* C10 as stated: a custom action placed in an interface alongside a read
\* operation on resource M takes its ID, tag, summary and success example
\* from M.
C10_SiblingInference ==
  \A a \in OpIds :
    (Swept(a) /\ ~ops[a].resOp.has /\ ops[a].action.has) =>
      \A r \in ReadSiblings(a) :
        LET metadata == models[ops[r].resOp.resourceType].meta IN
        /\ operationId[a] = Some(<<":","A","r","c","h","i","v","e">> \o CapSingular(metadata))
        /\ opTags[a] = <<CapPlural(metadata)>>
        /\ opSummary[a] = Some(<<"A","r","c","h","i","v","e"," ">> \o CapSingular(metadata))
        /\ opExamples[a][1] = ExpectedActionExample(ops[r].resOp.resourceType)

\* C10 amended: the custom action takes its ID, tag and success example from
\* M when no sibling before the read operation carries a resource-operation
\* tag on another resource (the first such sibling lends its resource), and
\* its summary too unless it already has one, which it keeps.
C10_FirstSiblingInference ==
  [][\A a \in OpIds :
       (Sweeping(a) /\ ~ops[a].resOp.has /\ ops[a].action.has) =>
         \A r \in ReadSiblings(a) :
           LET m == ops[r].resOp.resourceType
               metadata == models[m].meta
           IN (\A x \in LendingSiblings(a) :
                 x < r => ops[x].resOp.resourceType = m) =>
                /\ operationId'[a] = Some(<<":","A","r","c","h","i","v","e">> \o CapSingular(metadata))
                /\ opTags'[a] = Append(opTags[a], CapPlural(metadata))
                /\ opSummary'[a] =
                     IF opSummary[a].set THEN opSummary[a]
                     ELSE Some(<<"A","r","c","h","i","v","e"," ">> \o CapSingular(metadata))
                /\ Len(opExamples'[a]) = Len(opExamples[a]) + 7
                /\ opExamples'[a][Len(opExamples[a]) + 1] = ExpectedActionExample(m)
    ]_vars

\* a custom action behind siblings on two different resources has been named
C10_Witness ==
  \E a \in OpIds :
    /\ Swept(a) /\ ~ops[a].resOp.has /\ ops[a].action.has
    /\ operationId[a].set
    /\ \E r \in ReadSiblings(a), x \in LendingSiblings(a) :
         /\ r < x
         /\ ops[x].resOp.resourceType # ops[r].resOp.resourceType
         /\ \A y \in LendingSiblings(a) : r <= y

\* part occurs in s
Contains(s, part) ==
  \E i \in 1..(Len(s) - Len(part) + 1) : SubSeq(s, i, i + Len(part) - 1) = part

\* The generated value of a field that is neither key nor path, by its name,
\* written out; Undefined for a field that gets none.
ExpectedGenerated(name) ==
  CASE name = <<"t","i","t","l","e">> -> makeStringValue(<<"E","x","a","m","p","l","e"," ","T","i","t","l","e">>)
    [] name = <<"n","a","m","e">> -> makeStringValue(<<"E","x","a","m","p","l","e"," ","N","a","m","e">>)
    [] name = <<"c","o","u","n","t">> -> makeInt32Value(10000)
    [] name = <<"t","o","t","a","l">> -> makeInt32Value(10000)
    [] name = <<"p","r","i","c","e">> -> makeInt32Value(9999)
    [] name = <<"r","a","t","i","o">> -> makeInt32Value(9999)
    [] name = <<"a","c","t","i","v","e">> -> makeBooleanValue(TRUE)
    [] name = <<"c","r","e","a","t","e","d">> -> makeStringValue(<<"2","0","2","4","-","0","1","-","1","5","T","1","0",":","3","0",":","0","0","Z">>)
    [] OTHER -> Undefined

\* The resource the examples of a classified operation are built for.
ExampleModel(o) ==
  IF ops[o].resOp.has THEN ops[o].resOp.resourceType ELSE OwningModel(o)

\* The full resource examples in the success example of an operation: the
\* response, the element of a list response, and the request body of create
\* and createOrReplace.
FullResourceExamples(o) ==
  LET example == opExamples[o][1]
      operation == ops[o].resOp.operation
  IN (IF operation = "list"
      THEN {MapGet(example.returnType.items, <<"r","e","s","u","l","t","s">>).items[1].value}
      ELSE IF operation = "delete" THEN {}
      ELSE {example.returnType})
     \cup (IF operation \in {"create", "createOrReplace"}
           THEN {MapGet(example.parameters.items, <<"r","e","s","o","u","r","c","e">>)}
           ELSE {})

\* The request body of an update, which leaves out the key and path.
UpdateBodies(o) ==
  IF ops[o].resOp.operation = "update"
  THEN {MapGet(opExamples[o][1].parameters.items, <<"r","e","s","o","u","r","c","e">>)}
  ELSE {}

\* The value of field prop in resource example ex is the one expected.
FieldAsExpected(ex, prop, metadata) ==
  LET value == MapGet(ex.items, prop.name) IN
  IF prop.examples # <<>> THEN value = prop.examples[1]
  ELSE IF prop.key THEN value = makeStringValue(<<"m","y","-">> \o metadata.singular)
  ELSE IF prop.name = <<"p","a","t","h">>
  THEN value.kind = "string" /\ Contains(value.str, <<"m","y","-">> \o metadata.singular)
  ELSE value = ExpectedGenerated(prop.name)

\* C11: in every synthesized resource example a field with a declared example
\* has the first declared value, and a field without one has the generated
\* value (a path containing "my-<singular>"); a full example has every field
\* that declares an example or gets a generated value, and no other.
C11_DeclaredExampleWins ==
  \A o \in OpIds :
    (Swept(o) /\ (IsCrud(o) \/ IsResolvedAction(o))) =>
      LET m == ExampleModel(o)
          metadata == models[m].meta
          properties == models[m].properties
      IN /\ \A ex \in FullResourceExamples(o) \cup UpdateBodies(o) :
              /\ ex.kind = "object"
              /\ \A i \in 1..Len(properties) :
                   MapHas(ex.items, properties[i].name) =>
                     FieldAsExpected(ex, properties[i], metadata)
         /\ \A ex \in FullResourceExamples(o) :
              \A i \in 1..Len(properties) :
                MapHas(ex.items, properties[i].name) <=>
                  \/ properties[i].examples # <<>>
                  \/ properties[i].key
                  \/ properties[i].name = <<"p","a","t","h">>
                  \/ ExpectedGenerated(properties[i].name) # Undefined
         /\ \A ex \in UpdateBodies(o) :
              \A i \in 1..Len(properties) :
                (properties[i].examples # <<>> /\ ~properties[i].key
                 /\ properties[i].name # <<"p","a","t","h">>) =>
                   MapHas(ex.items, properties[i].name)

\* a read or an update whose response has the first declared path, a generated
\* count and no labels, and a read whose path is generated
C11_Witness ==
  /\ \E o \in OpIds :
       /\ Swept(o) /\ IsCrud(o) /\ ops[o].resOp.operation \in {"read", "update"}
       /\ models[ops[o].resOp.resourceType].properties = ExampleProperties
       /\ MapGet(opExamples[o][1].returnType.items, <<"p","a","t","h">>) =
            makeStringValue(<<"i","t","e","m","s","/","a","c","m","e">>)
       /\ MapGet(opExamples[o][1].returnType.items, <<"c","o","u","n","t">>) =
            makeInt32Value(10000)
       /\ ~MapHas(opExamples[o][1].returnType.items, <<"l","a","b","e","l","s">>)
  /\ \E o \in OpIds :
       /\ Swept(o) /\ IsCrud(o) /\ ops[o].resOp.operation = "read"
       /\ models[ops[o].resOp.resourceType].properties = PlainProperties
       /\ Contains(MapGet(opExamples[o][1].returnType.items, <<"p","a","t","h">>).str,
                   <<"m","y","-">>)

\* C12: a second run of $onValidate on the same graph leaves every operation's
\* ID, tags, description and example list, every model's extension and
\* description and every service's tag map as the first run left them.
C12_Idempotent ==
  [][pc.run > 1 =>
       /\ operationId' = operationId
       /\ opTags' = opTags
       /\ opDoc' = opDoc
       /\ opExamples' = opExamples
       /\ extension' = extension
       /\ modelDoc' = modelDoc
       /\ tagsMetadata' = tagsMetadata]_vars

\* C13: the output does not depend on the order in which the host hands out
\* models, operations and services. An interface may hand out any of its
\* operations first, so the resource inferred for an action, and with it the
\* ID and the tag, is the one every sibling with a resolvable resource
\* operation would lend.
C13_OrderIndependent ==
  \A a \in OpIds :
    (Swept(a) /\ IsResolvedAction(a)) =>
      \A first \in LendingSiblings(a) :
        LET metadata == models[ops[first].resOp.resourceType].meta IN
        /\ operationId[a] =
             Some(IF ops[a].action.has
                  THEN <<":","A","r","c","h","i","v","e">> \o CapSingular(metadata)
                  ELSE <<":","E","x","p","o","r","t">> \o CapPlural(metadata))
        /\ opTags[a] = <<CapPlural(metadata)>>

\* an action or collection action with no sibling to lend it a resource
IsUnresolvedAction(o) ==
  /\ ~ops[o].resOp.has
  /\ ops[o].action.has \/ ops[o].collectionAction.has
  /\ LendingSiblings(o) = {}

\* C14: an action or collection action for which sibling inference finds no
\* CRUD sibling with resolvable metadata gets exactly the six error examples
\* and no operation ID, tag, summary, description or success example, and the
\* sweep goes on to the next operation.
C14_UnresolvedActionErrorsOnly ==
  [][\A o \in OpIds :
       (Sweeping(o) /\ IsUnresolvedAction(o)) =>
         /\ operationId'[o] = operationId[o]
         /\ opTags'[o] = opTags[o]
         /\ opSummary'[o] = opSummary[o]
         /\ opDoc'[o] = opDoc[o]
         /\ Len(opExamples'[o]) = Len(opExamples[o]) + 6
         /\ \A i \in 1..6 :
              LET e == opExamples'[o][Len(opExamples[o]) + i] IN
              /\ e.parameters = Undefined
              /\ MapGet(e.returnType.items, <<"s","t","a","t","u","s">>) =
                   makeInt32Value(ExpectedErrors[i].status * 100)
         /\ pc' = [pc EXCEPT !.i = @ + 1]
    ]_vars

\* the pass has ended and an unresolved action that is not the last operation
\* of its service carries its authored summary and the six error examples only
C14_Witness ==
  /\ pc.phase = "done"
  /\ \E o \in OpIds :
       /\ IsUnresolvedAction(o)
       /\ Len(opExamples[o]) = 6
       /\ ~operationId[o].set
       /\ opTags[o] = <<>>
       /\ opSummary[o] = Some(<<"F","o","o">>)
       /\ \E i \in 1..(Len(serviceOperations(ops[o].svc)) - 1) :
            serviceOperations(ops[o].svc)[i] = o

\* a diagnostic has been reported on model m
Reported(m) == \E i \in 1..Len(diagnostics) : diagnostics[i].target = m

\* C15 as stated: a resource model whose parent reference points to a model
\* without ResourceMetadata is reported as a precondition failure and gets no
\* pattern and no extension.
C15_ParentWithoutMetadataRejected ==
  \A m \in ModelIds :
    (/\ Visited(m) /\ models[m].meta.has
     /\ models[m].parent # 0 /\ ~models[models[m].parent].meta.has) =>
      /\ Reported(m)
      /\ ~extension[m].set

\* a resource model whose parent carries no ResourceMetadata
HasPlainParent(m) ==
  /\ models[m].meta.has
  /\ models[m].parent # 0
  /\ ~models[models[m].parent].meta.has

\* C15 amended: a resource model whose parent reference points to a model
\* without ResourceMetadata is treated as a root and nothing is reported: its
\* extension carries the one pattern "<plural>/{<singular>}", and an operation
\* on it gets its success example, whose path parameters name no ancestor.
C15_ParentWithoutMetadataIsRoot ==
  /\ \A m \in ModelIds :
       (Visited(m) /\ HasPlainParent(m)) =>
         /\ extension[m].set
         /\ extension[m].patterns = <<Segment(models[m].meta)>>
         /\ ~Reported(m)
  /\ \A o \in OpIds :
       (/\ Swept(o) /\ (IsCrud(o) \/ IsResolvedAction(o))
        /\ HasPlainParent(ExampleModel(o))) =>
         LET metadata == models[ExampleModel(o)].meta
             parameters == opExamples[o][1].parameters.items
         IN /\ Len(opExamples[o]) = 7
            /\ \A i \in 1..Len(parameters) :
                 parameters[i].name \in
                   {metadata.singular, <<"r","e","s","o","u","r","c","e">>, <<"c","o","n","t","e","n","t","T","y","p","e">>}
            /\ ops[o].resOp.has =>
                 (MapHas(parameters, metadata.singular)
                    <=> ops[o].resOp.operation \notin {"list", "create"})
            /\ ~ops[o].resOp.has =>
                 parameters = <<[name |-> metadata.singular,
                                 value |-> makeStringValue(<<"m","y","-">>
                                                             \o metadata.singular)]>>

\* a resource below a model without metadata has been through the model
\* sweep, and an action that resolves to it has its example
C15_Witness ==
  /\ \E m \in ModelIds :
       Visited(m) /\ HasPlainParent(m) /\ extension[m].set
  /\ \E o \in OpIds :
       /\ Swept(o) /\ IsResolvedAction(o) /\ HasPlainParent(ExampleModel(o))
       /\ Len(opExamples[o]) = 7

\* C16: a model that carries ResourceMetadata and has no key field is reported
\* with the diagnostic aep-resource-requires-key naming that model.
C16_MissingKeyReported ==
  \A m \in ModelIds :
    (Visited(m) /\ models[m].meta.has /\ KeyNames(m) = {}) =>
      \E i \in 1..Len(diagnostics) :
        /\ diagnostics[i].code = "aep-resource-requires-key"
        /\ diagnostics[i].target = m

\* C17: when processing an operation fails partway, the operation has all of
\* its metadata (ID, tag, summary, description, success example and error
\* examples) or none of it, and the metadata of every other entity is left
\* unchanged; a model that fails has no extension, description or tag written.
C17_AtomicPerEntity ==
  [][pc'.phase = "thrown" =>
       /\ extension' = extension /\ modelDoc' = modelDoc
       /\ tagsMetadata' = tagsMetadata
       /\ propExamples' = propExamples
       /\ \A o \in OpIds :
            \/ /\ operationId'[o] = operationId[o]
               /\ opTags'[o] = opTags[o]
               /\ opSummary'[o] = opSummary[o]
               /\ opDoc'[o] = opDoc[o]
               /\ opExamples'[o] = opExamples[o]
            \/ /\ Sweeping(o)
               /\ operationId'[o].set
               /\ Len(opTags'[o]) = Len(opTags[o]) + 1
               /\ opSummary'[o].set
               /\ opDoc'[o].set
               /\ Len(opExamples'[o]) = Len(opExamples[o]) + 7
    ]_vars

\* C18: within a service the model sweep, the sort of the tag map and the
\* operation sweep follow each other with no way back: nothing is written on
\* an operation during the model sweep, the step that leaves the model sweep
\* leaves the tag map in ascending order with the same entries, and once the
\* operation sweep of a service has begun the extension and description of
\* every model and the tag map of that service stay as they are.
C18_PhasesInOrder ==
  [][/\ pc.phase = "models" =>
          /\ operationId' = operationId /\ opTags' = opTags
          /\ opSummary' = opSummary /\ opDoc' = opDoc
          /\ opExamples' = opExamples /\ propExamples' = propExamples
          /\ paramDoc' = paramDoc
          /\ pc'.svc = pc.svc
          /\ pc'.phase \in {"models", "operations", "thrown"}
          /\ pc'.phase = "models" => pc'.i = pc.i + 1
          /\ pc'.phase = "operations" =>
               /\ pc.i = Len(namespaceModels(pc.svc)) + 1
               /\ Len(tagsMetadata'[pc.svc].tags) = Len(tagsMetadata[pc.svc].tags)
               /\ \A i \in 1..Len(tagsMetadata[pc.svc].tags) :
                    \E j \in 1..Len(tagsMetadata'[pc.svc].tags) :
                      tagsMetadata'[pc.svc].tags[j] = tagsMetadata[pc.svc].tags[i]
               /\ \A i, j \in 1..Len(tagsMetadata'[pc.svc].tags) :
                    i < j => StrLess(tagsMetadata'[pc.svc].tags[i].name,
                                     tagsMetadata'[pc.svc].tags[j].name)
     /\ pc.phase = "operations" =>
          /\ tagsMetadata' = tagsMetadata
          /\ extension' = extension /\ modelDoc' = modelDoc
          /\ \/ pc'.svc = pc.svc /\ pc'.phase \in {"operations", "thrown"}
             \/ /\ pc.i = Len(serviceOperations(pc.svc)) + 1
                /\ \/ pc'.svc = pc.svc /\ pc'.phase = "done"
                   \/ pc'.svc = pc.svc + 1 /\ pc'.phase = "models" /\ pc'.i = 1
     /\ \A s \in Services :
          s < pc.svc =>
            /\ tagsMetadata'[s] = tagsMetadata[s]
            /\ \A m \in ModelIds :
                 models[m].ns = s =>
                   extension'[m] = extension[m] /\ modelDoc'[m] = modelDoc[m]
    ]_vars

\* the operation sweep of the second service is under way: a tag was
\* registered and sorted in it and an operation of it has been classified,
\* after the first service went through its phases
C18_Witness ==
  /\ pc.svc = 2 /\ pc.phase = "operations" /\ pc.i > 1
  /\ Len(tagsMetadata[2].tags) >= 1
  /\ \E o \in OpIds : ops[o].svc = 2 /\ operationId[o].set
  /\ \E o \in OpIds : ops[o].svc = 1 /\ operationId[o].set

\* C19: at the end of a pass every operation of a service, in an interface or
\* at top level, has been classified exactly once: a CRUD operation on a
\* resource and a resolved action have one tag, one success example and the
\* six error examples, an unresolved action the six error examples only.
C19_EveryOperationOnce ==
  pc.phase = "done" =>
    \A o \in OpIds :
      /\ (IsCrud(o) \/ IsResolvedAction(o)) =>
           /\ operationId[o].set
           /\ Len(opTags[o]) = 1
           /\ Len(opExamples[o]) = 7
           /\ ~MapHas(opExamples[o][1].returnType.items, <<"s","t","a","t","u","s">>)
           /\ opExamples[o][1].parameters.kind = "object"
           /\ Len(ErrorExamplesOf(o)) = 6
      /\ IsUnresolvedAction(o) =>
           /\ Len(opTags[o]) = 0
           /\ Len(opExamples[o]) = 6
           /\ Len(ErrorExamplesOf(o)) = 6

\* the pass has ended with an interface operation and a top-level operation
\* classified
C19_Witness ==
  /\ pc.phase = "done"
  /\ \E o \in OpIds :
       ops[o].iface # 0 /\ IsCrud(o) /\ Len(opExamples[o]) = 7
  /\ \E o \in OpIds :
       ops[o].iface # 0 /\ IsResolvedAction(o) /\ Len(opExamples[o]) = 7
  /\ \E o \in OpIds :
       ops[o].iface = 0 /\ IsCrud(o) /\ Len(opExamples[o]) = 7

\* C20: no step of the pass changes the graph: the models with their
\* ResourceMetadata, parent, namespace and fields, their declaration order,
\* and the operations with their interface, tags and return type.
C20_GraphUnchanged ==
  [][models' = models /\ modelOrder' = modelOrder /\ ops' = ops]_vars

\* the pass has ended and has written on a model, a tag map and an operation
C20_Witness ==
  /\ pc.phase = "done"
  /\ \E m \in ModelIds : extension[m].set /\ modelDoc[m].set
  /\ \E s \in Services : Len(tagsMetadata[s].tags) >= 1
  /\ \E o \in OpIds : operationId[o].set /\ Len(opExamples[o]) = 7

\* The singular names along a chain, root first, each name once at the place
\* of its first member.
RECURSIVE ChainKeys(_)
ChainKeys(chain) ==
  IF chain = <<>> THEN <<>>
  ELSE LET before == ChainKeys(SubSeq(chain, 1, Len(chain) - 1))
           singular == models[chain[Len(chain)]].meta.singular
       IN IF \E i \in 1..Len(before) : before[i] = singular THEN before
          ELSE Append(before, singular)

\* singular -> "my-" + singular for the members of a chain
ExpectedPathParams(chain) ==
  [i \in 1..Len(ChainKeys(chain)) |->
     [name |-> ChainKeys(chain)[i],
      value |-> makeStringValue(<<"m","y","-">> \o ChainKeys(chain)[i])]]

\* the parameters of a success example other than the body and content type
PathParamsOf(example) ==
  SelectSeq(example.parameters.items,
            LAMBDA e : e.name \notin {<<"r","e","s","o","u","r","c","e">>, <<"c","o","n","t","e","n","t","T","y","p","e">>})

\* C21: for a resource R with ancestors A1..An, root first, the path
\* parameters of the success example are singular(X) -> "my-" + singular(X)
\* for A1..An and R in that order for read, update, delete and
\* createOrReplace, and for A1..An only for list and create; read, delete and
\* list have no other parameter.
C21_PathParams ==
  \A o \in OpIds :
    (Swept(o) /\ IsCrud(o)) =>
      LET chain == ResourceChain(ops[o].resOp.resourceType)
          ancestors == SubSeq(chain, 1, Len(chain) - 1)
          operation == ops[o].resOp.operation
          example == opExamples[o][1]
      IN /\ operation \in {"read", "update", "delete", "createOrReplace"} =>
              PathParamsOf(example) = ExpectedPathParams(chain)
         /\ operation \in {"list", "create"} =>
              PathParamsOf(example) = ExpectedPathParams(ancestors)
         /\ operation \in {"read", "delete", "list"} =>
              example.parameters.items = PathParamsOf(example)

\* a list on a child resource carries its parent's parameter and a read on
\* the root its own
C21_Witness ==
  /\ \E o \in OpIds :
       /\ Swept(o) /\ IsCrud(o) /\ ops[o].resOp.operation = "list"
       /\ Len(ResourceChain(ops[o].resOp.resourceType)) >= 2
       /\ Len(opExamples[o][1].parameters.items) >= 1
  /\ \E o \in OpIds :
       /\ Swept(o) /\ IsCrud(o) /\ ops[o].resOp.operation = "read"
       /\ Len(opExamples[o][1].parameters.items) = 1

\* The fields the generic rule decides: no declared example, not the key, not
\* the field named path.
GenericFields(m) ==
  {i \in 1..Len(models[m].properties) :
     /\ models[m].properties[i].examples = <<>>
     /\ ~models[m].properties[i].key
     /\ models[m].properties[i].name # <<"p","a","t","h">>}

\* the upper-case form of the first letters the field names start with
FirstUpper(c) ==
  CASE c = "t" -> "T" [] c = "n" -> "N" [] c = "l" -> "L" [] OTHER -> c

\* C22: a field the generic rule decides has, by its scalar type, the value
\* "Example " + Capitalized(name) for string, 100 for int32 and int64, 99.99
\* for float32 and float64, true for boolean, "2024-01-15T10:30:00Z" for
\* utcDateTime, and is absent from the example for any other type.
C22_GeneratedByType ==
  \A o \in OpIds :
    (Swept(o) /\ (IsCrud(o) \/ IsResolvedAction(o))) =>
      \A ex \in FullResourceExamples(o) \cup UpdateBodies(o) :
        \A i \in GenericFields(ExampleModel(o)) :
          LET prop == models[ExampleModel(o)].properties[i]
              present == MapHas(ex.items, prop.name)
              value == MapGet(ex.items, prop.name)
          IN CASE prop.type = "string" ->
                    /\ present
                    /\ value.kind = "string"
                    /\ value.str = <<"E","x","a","m","p","l","e"," ">> \o <<FirstUpper(prop.name[1])>>
                                      \o Tail(prop.name)
               [] prop.type \in {"int32", "int64"} ->
                    present /\ value.kind = "numeric" /\ value.num = 10000
               [] prop.type \in {"float32", "float64"} ->
                    present /\ value.kind = "numeric" /\ value.num = 9999
               [] prop.type = "boolean" ->
                    present /\ value.kind = "boolean" /\ value.num = 1
               [] prop.type = "utcDateTime" ->
                    /\ present
                    /\ value.kind = "string"
                    /\ value.str = <<"2","0","2","4","-","0","1","-","1","5","T","1","0",":","3","0",":","0","0","Z">>
               [] OTHER -> ~present

\* a response with a field of every scalar type, and one with a string field
C22_Witness ==
  /\ \E o \in OpIds :
       /\ Swept(o) /\ IsCrud(o) /\ ops[o].resOp.operation = "read"
       /\ MapHas(opExamples[o][1].returnType.items, <<"t","o","t","a","l">>)
       /\ MapGet(opExamples[o][1].returnType.items, <<"r","a","t","i","o">>).num = 9999
       /\ MapHas(opExamples[o][1].returnType.items, <<"a","c","t","i","v","e">>)
       /\ MapHas(opExamples[o][1].returnType.items, <<"c","r","e","a","t","e","d">>)
       /\ ~MapHas(opExamples[o][1].returnType.items, <<"l","i","n","k">>)
  /\ \E o \in OpIds :
       /\ Swept(o) /\ IsCrud(o) /\ ops[o].resOp.operation = "read"
       /\ MapHas(opExamples[o][1].returnType.items, <<"t","i","t","l","e">>)
       /\ MapGet(opExamples[o][1].returnType.items, <<"t","i","t","l","e">>) =
            makeStringValue(<<"E","x","a","m","p","l","e"," ","T","i","t","l","e">>)

\* "<plural>/my-<singular>" for every member of a chain, joined by "/"
RECURSIVE ExamplePath(_)
ExamplePath(chain) ==
  LET last == models[chain[Len(chain)]].meta
      own == last.plural \o <<"/","m","y","-">> \o last.singular
  IN IF Len(chain) = 1 THEN own
     ELSE ExamplePath(SubSeq(chain, 1, Len(chain) - 1)) \o <<"/">> \o own

\* C23: in a full resource example a key field without a declared example has
\* the value "my-" + singular, and a field named path without one has the
\* resource's full pattern with every "{param}" replaced by "my-" + param
\* (publishers/my-publisher/books/my-book); neither has the value the generic
\* rule gives a string field.
C23_KeyAndPath ==
  \A o \in OpIds :
    (Swept(o) /\ (IsCrud(o) \/ IsResolvedAction(o))) =>
      LET m == ExampleModel(o)
          properties == models[m].properties
      IN \A ex \in FullResourceExamples(o) :
           \A i \in 1..Len(properties) :
             properties[i].examples = <<>> =>
               /\ properties[i].key =>
                    /\ MapHas(ex.items, properties[i].name)
                    /\ MapGet(ex.items, properties[i].name) =
                         makeStringValue(<<"m","y","-">> \o models[m].meta.singular)
               /\ (~properties[i].key /\ properties[i].name = <<"p","a","t","h">>) =>
                    /\ MapHas(ex.items, <<"p","a","t","h">>)
                    /\ MapGet(ex.items, <<"p","a","t","h">>) =
                         makeStringValue(ExamplePath(ResourceChain(m)))

\* the read of a child resource answers with the key "my-book" and the path
\* "publishers/my-publisher/books/my-book"
C23_Witness ==
  \E o \in OpIds :
    /\ Swept(o) /\ IsCrud(o) /\ ops[o].resOp.operation = "read"
    /\ models[ops[o].resOp.resourceType].properties = PlainProperties
    /\ MapGet(opExamples[o][1].returnType.items, <<"i","d">>) =
         makeStringValue(<<"m","y","-","b","o","o","k">>)
    /\ MapGet(opExamples[o][1].returnType.items, <<"p","a","t","h">>) =
         makeStringValue(<<"p","u","b","l","i","s","h","e","r","s","/","m","y","-","p","u","b","l","i","s","h","e","r","/","b","o","o","k","s","/","m","y","-","b","o","o","k">>)

\* The response model whose fields a list operation gives examples to.
ResponseModel(o) == ops[o].returnType.variants[1].results

\* C24: when a list operation is processed, a field of its response model
\* that already has an example, results or next_page_token, keeps exactly its
\* examples, and a field that has none has exactly one afterwards.
C24_FieldExampleOnce ==
  [][\A o \in OpIds :
       (Sweeping(o) /\ IsCrud(o) /\ ops[o].resOp.operation = "list"
        /\ pc'.phase # "thrown") =>
         LET r == ResponseModel(o) IN
         /\ propExamples[r].results.set =>
              propExamples'[r].results = propExamples[r].results
         /\ ~propExamples[r].results.set =>
              Len(propExamples'[r].results.list) = 1
         /\ propExamples[r].next_page_token.set =>
              propExamples'[r].next_page_token = propExamples[r].next_page_token
         /\ ~propExamples[r].next_page_token.set =>
              Len(propExamples'[r].next_page_token.list) = 1]_vars

\* The model the model callback is about to run on.
Visiting(m) ==
  /\ pc.phase = "models"
  /\ pc.i <= Len(namespaceModels(pc.svc))
  /\ namespaceModels(pc.svc)[pc.i] = m

\* C25: when the model sweep visits a resource model, an authored description
\* of the model is kept and a model without one gets "A <singular>
\* resource."; a tag name already present in the service's tag map keeps its
\* description and a new one is registered with "Operations for managing
\* <plural>."; no step changes any other description or any other tag.
C25_DescriptionsKept ==
  [][/\ \A m \in ModelIds :
          IF Visiting(m) /\ models[m].meta.has /\ pc'.phase # "thrown"
          THEN LET name == CapPlural(models[m].meta)
                   before == tagsMetadata[pc.svc].tags
                   after == tagsMetadata'[pc.svc].tags
               IN /\ modelDoc'[m] =
                       IF modelDoc[m].set THEN modelDoc[m]
                       ELSE Some(<<"A"," ">> \o models[m].meta.singular
                                   \o <<" ","r","e","s","o","u","r","c","e",".">>)
                  /\ MapHas(after, name)
                  /\ MapGet(after, name) =
                       IF MapHas(before, name) THEN MapGet(before, name)
                       ELSE Some(<<"O","p","e","r","a","t","i","o","n","s"," ","f","o","r"," ","m","a","n","a","g","i","n","g"," ">>
                                   \o models[m].meta.plural \o <<".">>)
                  /\ \A i \in 1..Len(after) :
                       after[i].name # name =>
                         /\ MapHas(before, after[i].name)
                         /\ MapGet(before, after[i].name) = after[i].value
          ELSE modelDoc'[m] = modelDoc[m]
     /\ \A s \in Services : \A i \in 1..Len(tagsMetadata[s].tags) :
          LET tag == tagsMetadata[s].tags[i] IN
          /\ MapHas(tagsMetadata'[s].tags, tag.name)
          /\ MapGet(tagsMetadata'[s].tags, tag.name) = tag.value]_vars

\* the authored tag Publishers still has its description beside a generated
\* one, one model kept its authored description and one got the generated one
C25_Witness ==
  /\ pc.phase = "done"
  /\ MapHas(tagsMetadata[1].tags, <<"P","u","b","l","i","s","h","e","r","s">>)
  /\ MapGet(tagsMetadata[1].tags, <<"P","u","b","l","i","s","h","e","r","s">>) = Some(<<"A","u","t","h","o","r","e","d"," ","t","a","g",".">>)
  /\ models[1].meta.has /\ models[1].ns = 1
  /\ \E i \in 1..Len(tagsMetadata[1].tags) :
       tagsMetadata[1].tags[i].value = Some(<<"O","p","e","r","a","t","i","o","n","s"," ","f","o","r"," ","m","a","n","a","g","i","n","g"," ","b","o","o","k","s",".">>)
  /\ \E m \in ModelIds :
       models[m].meta.has /\ extension[m].set /\ modelDoc[m] = Some(<<"A","u","t","h","o","r","e","d",".">>)
  /\ \E m \in ModelIds :
       models[m].meta.has /\ extension[m].set
       /\ modelDoc[m] = Some(<<"A"," ">> \o models[m].meta.singular \o <<" ","r","e","s","o","u","r","c","e",".">>)

\* The models reached from m by at most k steps along the parent relation.
RECURSIVE Up(_, _)
Up(m, k) ==
  IF k = 0 \/ models[m].parent = 0 THEN {}
  ELSE {models[m].parent} \cup Up(models[m].parent, k - 1)

\* no model is its own ancestor
AcyclicParents == \A m \in ModelIds : m \notin Up(m, NumModels)

\* How far the pass has got: services in order, inside a service the model
\* sweep before the operation sweep, inside a sweep the position; a pass that
\* has returned or thrown is past every service.
SweepLength == NumModels + NumOps + 2
Progress(p) ==
  IF p.phase \in {"done", "thrown"} THEN (2 * NumServices + 2) * SweepLength
  ELSE (2 * p.svc + (IF p.phase = "models" THEN 0 ELSE 1)) * SweepLength + p.i

\* C26: the pass terminates on every input graph: until it has completed
\* both sweeps of every service or has stopped with a fatal failure it stands
\* at an entity of the running sweep or at the sweep's end, where the next
\* step is due, and every step takes it further along a bounded course. On
\* an acyclic parent relation the walk of buildPattern and collectPathParams
\* ends after exactly as many recursive calls as the chain is deep; on a
\* parent cycle the pass stops.
C26_Terminates ==
  /\ [](pc.phase \notin {"done", "thrown"} =>
          /\ pc.svc \in Services
          /\ pc.phase = "models" =>
               pc.i \in 1..(Len(namespaceModels(pc.svc)) + 1)
          /\ pc.phase = "operations" =>
               pc.i \in 1..(Len(serviceOperations(pc.svc)) + 1))
  /\ [](pc.i < SweepLength)
  /\ [][Progress(pc') > Progress(pc)]_vars
  /\ [](AcyclicParents =>
          \A m \in ModelIds :
            models[m].meta.has =>
              LET depth == Len(ResourceChain(m)) IN
              /\ ~exceedsCallStack(m)
              /\ chainEnds(m, depth - 1)
              /\ depth > 1 => ~chainEnds(m, depth - 2))

\* the pass has stopped on a parent relation in which the first model is its
\* own ancestor
C26_Witness ==
  /\ pc.phase = "thrown"
  /\ 1 \in Up(1, NumModels)
  /\ \A m \in ModelIds : models[m].meta.has

\* C27: every classified operation whose owning resource resolved carries
\* one tag, the capitalized plural of that resource: the resource of the
\* operation for the six standard kinds, the resource sibling inference found
\* for a custom action and a collection action.
C27_TagIsPlural ==
  \A o \in OpIds :
    (Swept(o) /\ (IsCrud(o) \/ IsResolvedAction(o))) =>
      opTags[o] = <<CapPlural(models[ExampleModel(o)].meta)>>

\* a collection action and a delete, both tagged with the plural of their
\* resource
C27_Witness ==
  /\ \E o \in OpIds :
       /\ Swept(o) /\ IsResolvedAction(o) /\ ops[o].collectionAction.has
       /\ opTags[o] = <<<<"P","u","b","l","i","s","h","e","r","s">>>>
  /\ \E o \in OpIds :
       /\ Swept(o) /\ IsCrud(o) /\ opTags[o] = <<<<"P","u","b","l","i","s","h","e","r","s">>>>

\* C28: after the pass every tag attached to an operation of a service is a
\* key of that service's tag map, wherever the operation's resource model is
\* declared.
C28_TagsRegistered ==
  pc.phase = "done" =>
    \A o \in OpIds : \A i \in 1..Len(opTags[o]) :
      MapHas(tagsMetadata[ops[o].svc].tags, opTags[o][i])

\* The names between "{" and "}" in a pattern, in order.
RECURSIVE Placeholders(_)
Placeholders(s) ==
  IF \A j \in 1..Len(s) : s[j] # "{" THEN <<>>
  ELSE LET open == CHOOSE j \in 1..Len(s) :
                     s[j] = "{" /\ \A k \in 1..(j - 1) : s[k] # "{"
           close == CHOOSE j \in (open + 1)..Len(s) :
                      s[j] = "}" /\ \A k \in (open + 1)..(j - 1) : s[k] # "}"
       IN <<SubSeq(s, open + 1, close - 1)>>
            \o Placeholders(SubSeq(s, close + 1, Len(s)))

\* The pattern with every "{p}" replaced by the string under p in params.
RECURSIVE Substitute(_, _)
Substitute(s, params) ==
  IF \A j \in 1..Len(s) : s[j] # "{" THEN s
  ELSE LET open == CHOOSE j \in 1..Len(s) :
                     s[j] = "{" /\ \A k \in 1..(j - 1) : s[k] # "{"
           close == CHOOSE j \in (open + 1)..Len(s) :
                      s[j] = "}" /\ \A k \in (open + 1)..(j - 1) : s[k] # "}"
           p == SubSeq(s, open + 1, close - 1)
       IN SubSeq(s, 1, open - 1)
            \o (IF MapHas(params, p) THEN MapGet(params, p).str
                ELSE SubSeq(s, open, close))
            \o Substitute(SubSeq(s, close + 1, Len(s)), params)

\* a read of a resource whose example carries a generated path
ReadWithPath(o) ==
  /\ Swept(o) /\ IsCrud(o) /\ ops[o].resOp.operation = "read"
  /\ \E i \in 1..Len(models[ops[o].resOp.resourceType].properties) :
       LET prop == models[ops[o].resOp.resourceType].properties[i] IN
       prop.name = <<"p","a","t","h">> /\ prop.examples = <<>> /\ ~prop.key

\* C29: the path parameters of a read example correspond one-to-one to the
\* placeholders of the resource's pattern: there are as many entries as
\* placeholders, and replacing each placeholder {p} by the value under p
\* gives the generated path; also when two members of the chain share a
\* singular name.
C29_ParamsMatchPlaceholders ==
  \A o \in OpIds :
    ReadWithPath(o) =>
      LET pattern == JoinSegments(ResourceChain(ops[o].resOp.resourceType))
          params == opExamples[o][1].parameters.items
      IN /\ Len(params) = Len(Placeholders(pattern))
         /\ Substitute(pattern, params) =
              MapGet(opExamples[o][1].returnType.items, <<"p","a","t","h">>).str

\* C29 as it holds: there are as many entries as distinct placeholder names,
\* every placeholder has its entry, and replacing each placeholder {p} by the
\* value under p gives the generated path; members of the chain that share a
\* singular name share one entry.
C29_ParamsMatchPlaceholderNames ==
  \A o \in OpIds :
    ReadWithPath(o) =>
      LET pattern == JoinSegments(ResourceChain(ops[o].resOp.resourceType))
          params == opExamples[o][1].parameters.items
          names == {Placeholders(pattern)[i] : i \in 1..Len(Placeholders(pattern))}
      IN /\ Len(params) = Cardinality(names)
         /\ \A p \in names : MapHas(params, p)
         /\ Substitute(pattern, params) =
              MapGet(opExamples[o][1].returnType.items, <<"p","a","t","h">>).str

\* a read on a chain of two members with one singular name: two placeholders,
\* one entry
C29_Witness ==
  \E o \in OpIds :
    /\ ReadWithPath(o)
    /\ Len(Placeholders(JoinSegments(ResourceChain(ops[o].resOp.resourceType)))) >= 2
    /\ Len(opExamples[o][1].parameters.items) = 1

\* The resource models have pairwise distinct singular names and pairwise
\* distinct plural names.
DistinctNames ==
  \A m1, m2 \in ModelIds :
    (m1 # m2 /\ models[m1].meta.has /\ models[m2].meta.has) =>
      /\ models[m1].meta.singular # models[m2].meta.singular
      /\ models[m1].meta.plural # models[m2].meta.plural

\* the name of the action an operation is declared as
ActionName(o) ==
  IF ops[o].action.has THEN ops[o].action.name ELSE ops[o].collectionAction.name

\* No two operations of a service share the same (kind, resource) or the
\* same (action name, owning resource).
DistinctOperations ==
  \A o1, o2 \in OpIds :
    (o1 # o2 /\ ops[o1].svc = ops[o2].svc) =>
      /\ ~(/\ IsCrud(o1) /\ IsCrud(o2)
            /\ ops[o1].resOp = ops[o2].resOp)
      /\ ~(/\ IsResolvedAction(o1) /\ IsResolvedAction(o2)
            /\ ActionName(o1) = ActionName(o2)
            /\ OwningModel(o1) = OwningModel(o2))

\* C30: when the resource models have pairwise distinct singular names and
\* pairwise distinct plural names and no two operations share the same
\* (kind, resource) or the same (action name, owning resource), the operation
\* IDs the pass assigned within a service are pairwise distinct.
C30_OperationIdsDistinct ==
  (DistinctNames /\ DistinctOperations) =>
    \A o1, o2 \in OpIds :
      (/\ o1 # o2 /\ ops[o1].svc = ops[o2].svc
       /\ Swept(o1) /\ Swept(o2)
       /\ operationId[o1].set /\ operationId[o2].set) =>
        operationId[o1] # operationId[o2]

=============================================================================
